---- MODULE Spec2Model ----
(***************************************************************************)
(* Model of romansod/roll-dice: the Shut-the-Box bitset solver and move    *)
(* validation (internal/games/shutthebox.go) and the producer/consumer     *)
(* pipeline of the probability engine (internal/probgen/probgen.go).       *)
(***************************************************************************)
EXTENDS Integers, Sequences, FiniteSets, TLC

(***************************************************************************)
(* Program constants                                                       *)
(***************************************************************************)

\* shutthebox.go:24  const SizeBox int = 9
SizeBox == 9

\* shutthebox.go:30  const ShutBox int = 0
ShutBox == 0

\* diceroll.go:21  D6 = 6
D6 == 6

RECURSIVE ShiftLeft(_, _)
\* x << n
ShiftLeft(x, n) == IF n = 0 THEN x ELSE ShiftLeft(2 * x, n - 1)

\* 1 << n for every shift the program performs: slot indices 0..8 of a digit,
\* indices up to 2 * D6 - 1 of a target, and SizeBox in OpenBox
Pow2Table == [n \in 0..(2 * D6) |-> ShiftLeft(1, n)]

\* 1 << n
Pow2(n) == Pow2Table[n]

\* shutthebox.go:27  const OpenBox int = (1 << SizeBox) - 1
OpenBox == Pow2(SizeBox) - 1

\* every value a 9 bit game state can take
Bitsets == 0..OpenBox

\* shutthebox.go:291  GetSlotValue
GetSlotValue(slot) == slot + 1

\* a GetValueSlot that is off by one more
GetValueSlotOffByTwo(value) == value - 2

\* shutthebox.go:301  GetValueSlot
GetValueSlot(value) == value - 1

\* shutthebox.go:92-95  target := roll1 + roll2, each roll GetSlotValue of a D6 index
Targets == { GetSlotValue(i1) + GetSlotValue(i2) : i1 \in 0..(D6 - 1), i2 \in 0..(D6 - 1) }

\* a bit test that wraps the bit index around the width of the box
IsBitSetWrapped(bitset, bit) == (bitset \div Pow2(bit % SizeBox)) % 2 = 1

\* shutthebox.go:252  bitset&(1<<bit) != 0
IsBitSet(bitset, bit) == (bitset \div Pow2(bit)) % 2 = 1

\* a SetBitEmpty that forgets to clear the bit
SetBitEmptyNoop(bitset, bit) == bitset

\* shutthebox.go:261  *bitset = *bitset &^ (1 << bit); the new value of *bitset
SetBitEmpty(bitset, bit) == IF IsBitSet(bitset, bit) THEN bitset - Pow2(bit) ELSE bitset

\* shutthebox.go:420  IsBoxEmpty
IsBoxEmpty(gstate) == gstate = ShutBox

(***************************************************************************)
(* TargetSumExists (shutthebox.go:378-412).                                *)
(*                                                                         *)
(* The Go function takes a pointer.  Inside the loop the failure branch    *)
(* executes `bitset = &orig_bitset`: from then on the parameter points at  *)
(* the local snapshot, so later recursive calls write the snapshot itself  *)
(* and no longer the caller's integer.  The operators below carry both     *)
(* integers: `caller` is the value of the integer the caller passed,       *)
(* `orig_bitset` the value of the local, and `onCaller` tells which one    *)
(* the pointer designates.  The result is the boolean together with the    *)
(* final value of the caller's integer.                                    *)
(***************************************************************************)
\* a loop that tries no split of the target at all
TargetSumLoopNoSplit(caller, orig_bitset, onCaller, low_v, high_v) ==
    [ok |-> FALSE, bs |-> caller]

RECURSIVE TargetSumExists(_, _)
RECURSIVE TargetSumLoop(_, _, _, _, _)

\* shutthebox.go:396-408  the for loop over (low_v, high_v)
TargetSumLoop(caller, orig_bitset, onCaller, low_v, high_v) ==
    IF ~(low_v < high_v)
    THEN [ok |-> FALSE, bs |-> caller]
    ELSE LET cur  == IF onCaller THEN caller ELSE orig_bitset
             r1   == TargetSumExists(cur, low_v)
             \* && short circuits: the high search runs only after a found low
             r2   == IF r1.ok THEN TargetSumExists(r1.bs, high_v) ELSE r1
             c2   == IF onCaller THEN r2.bs ELSE caller
             o2   == IF onCaller THEN orig_bitset ELSE r2.bs
         IN  IF r1.ok /\ r2.ok
             THEN [ok |-> TRUE, bs |-> c2]
             \* bitset = &orig_bitset; low_v++; high_v--
             ELSE TargetSumLoop(c2, o2, FALSE, low_v + 1, high_v - 1)

\* shutthebox.go:378-412
TargetSumExists(bitset, target) ==
    IF IsBitSet(bitset, GetValueSlot(target))
    THEN [ok |-> TRUE, bs |-> SetBitEmpty(bitset, GetValueSlot(target))]
    ELSE TargetSumLoop(bitset, bitset, TRUE, 1, target - 1)

\* shutthebox.go:396-408  the same for loop, observed: the value of *bitset at
\* the moment each (low_v, high_v) attempt begins, in the order of the attempts
RECURSIVE AttemptStartsLoop(_, _, _, _, _)
AttemptStartsLoop(caller, orig_bitset, onCaller, low_v, high_v) ==
    IF ~(low_v < high_v)
    THEN <<>>
    ELSE LET cur  == IF onCaller THEN caller ELSE orig_bitset
             r1   == TargetSumExists(cur, low_v)
             r2   == IF r1.ok THEN TargetSumExists(r1.bs, high_v) ELSE r1
             c2   == IF onCaller THEN r2.bs ELSE caller
             o2   == IF onCaller THEN orig_bitset ELSE r2.bs
         IN  <<cur>> \o
             (IF r1.ok /\ r2.ok
              THEN <<>>
              ELSE AttemptStartsLoop(c2, o2, FALSE, low_v + 1, high_v - 1))

\* shutthebox.go:378-412  the attempts of one call TargetSumExists(&bitset, target)
AttemptStarts(bitset, target) ==
    IF IsBitSet(bitset, GetValueSlot(target))
    THEN <<>>
    ELSE AttemptStartsLoop(bitset, bitset, TRUE, 1, target - 1)

\* shutthebox.go:378-412  one call TargetSumExists(&bitset, target), observed:
\* the slot index its first test reads is not negative, and every recursive
\* call below it has a sub-target t with 1 <= t < the target of its caller
RECURSIVE CallProper(_, _)
RECURSIVE LoopProper(_, _, _, _, _, _)

\* shutthebox.go:396-408  the for loop of a call with the given target
LoopProper(caller, orig_bitset, onCaller, low_v, high_v, target) ==
    IF ~(low_v < high_v)
    THEN TRUE
    ELSE /\ 1 <= low_v
         /\ low_v < target
         /\ 1 <= high_v
         /\ high_v < target
         /\ LET cur == IF onCaller THEN caller ELSE orig_bitset
            IN  /\ CallProper(cur, low_v)
                /\ LET r1 == TargetSumExists(cur, low_v)
                       r2 == IF r1.ok THEN TargetSumExists(r1.bs, high_v) ELSE r1
                       c2 == IF onCaller THEN r2.bs ELSE caller
                       o2 == IF onCaller THEN orig_bitset ELSE r2.bs
                   IN  /\ r1.ok => CallProper(r1.bs, high_v)
                       /\ \/ r1.ok /\ r2.ok
                          \/ LoopProper(c2, o2, FALSE, low_v + 1, high_v - 1, target)

\* shutthebox.go:378-412
CallProper(bitset, target) ==
    /\ GetValueSlot(target) >= 0
    /\ \/ IsBitSet(bitset, GetValueSlot(target))
       \/ LoopProper(bitset, bitset, TRUE, 1, target - 1, target)

(***************************************************************************)
(* Move strings.  A move is the line the player typed: a sequence of       *)
(* characters.  The alphabet holds every decimal digit, a letter and the   *)
(* minus sign, the kinds of character strconv.Atoi tells apart.            *)
(* processProposedUpdate reads the string one character at a time and      *)
(* returns at the first offending one, so the model reads it the same way: *)
(* the characters not yet read are not part of the state.                  *)
(***************************************************************************)

\* longest move string the model feeds to the validator
MaxMoveLen == 2

\* the digit characters and the integer strconv.Atoi returns for each
DigitValue ==
    [c \in {"0", "1", "2", "3", "4", "5", "6", "7", "8", "9"} |->
        CASE c = "0" -> 0 [] c = "1" -> 1 [] c = "2" -> 2 [] c = "3" -> 3
          [] c = "4" -> 4 [] c = "5" -> 5 [] c = "6" -> 6 [] c = "7" -> 7
          [] c = "8" -> 8 [] c = "9" -> 9]

\* the characters a move string is made of
Chars == DOMAIN DigitValue \cup {"a", "-"}

\* a conversion that reads a character that is no digit as 1
AtoiLenient(c) ==
    IF c \in DOMAIN DigitValue
    THEN [v |-> DigitValue[c], err |-> FALSE]
    ELSE [v |-> 1, err |-> FALSE]

\* shutthebox.go:216  strconv.Atoi(string(d)) on one character: the value and
\* whether the conversion failed (Atoi returns 0 with its error)
Atoi(c) ==
    IF c \in DOMAIN DigitValue
    THEN [v |-> DigitValue[c], err |-> FALSE]
    ELSE [v |-> 0, err |-> TRUE]

\* the errors of processProposedUpdate, with the values their messages carry
ErrNil == <<"nil">>
ErrInvDigit == <<"ErrInvDigit">>
ErrSlotClosed(digit_i) == <<"slot already closed", digit_i>>
\* a message with its two numbers the wrong way round
ErrNotEqTargetSwapped(combinedDigits, target) == <<"ErrNotEqTarget", target, combinedDigits>>
ErrNotEqTarget(combinedDigits, target) == <<"ErrNotEqTarget", combinedDigits, target>>

\* shutthebox.go:210-213  the empty input string is invalid
RejectEmpty == [gstate |-> -1, err |-> ErrInvDigit]

\* an iteration that closes the slot without looking whether it is open
ProcessDigitUnchecked(gstate, combinedDigits, d) ==
    LET a          == Atoi(d)
        digit_i    == a.v
        digit_slot == GetValueSlot(digit_i)
    IN  IF a.err \/ digit_i < 1
        THEN [gstate |-> -1, combinedDigits |-> combinedDigits, err |-> ErrInvDigit]
        ELSE [gstate |-> SetBitEmpty(gstate, digit_slot),
              combinedDigits |-> combinedDigits + digit_i, err |-> ErrNil]

\* shutthebox.go:216-234  one iteration of the loop over the characters: the
\* working copy and the running sum after it, and the error it returns with
ProcessDigit(gstate, combinedDigits, d) ==
    LET a          == Atoi(d)
        digit_i    == a.v
        digit_slot == GetValueSlot(digit_i)
    IN  IF a.err \/ digit_i < 1
        THEN [gstate |-> -1, combinedDigits |-> combinedDigits, err |-> ErrInvDigit]
        ELSE IF ~IsBitSet(gstate, digit_slot)
        THEN [gstate |-> -1, combinedDigits |-> combinedDigits,
              err |-> ErrSlotClosed(digit_i)]
        ELSE [gstate |-> SetBitEmpty(gstate, digit_slot),
              combinedDigits |-> combinedDigits + digit_i, err |-> ErrNil]

\* a final check that accepts whatever the digits add up to
VerifyTargetSkipped(gstate, combinedDigits, target) ==
    [gstate |-> gstate, err |-> ErrNil]

\* shutthebox.go:237-242  verify whether the inputs add up to the target
VerifyTarget(gstate, combinedDigits, target) ==
    IF combinedDigits # target
    THEN [gstate |-> -1, err |-> ErrNotEqTarget(combinedDigits, target)]
    ELSE [gstate |-> gstate, err |-> ErrNil]

\* an updateGameState that stores the proposed state whatever the error
updateGameStateAlways(gstate, proposedUpdate, err) == proposedUpdate

\* an updateGameState that opens the box again when the move is rejected
updateGameStateReset(gstate, proposedUpdate, err) ==
    IF err = ErrNil THEN proposedUpdate ELSE OpenBox

\* shutthebox.go:137-142  shutTheBox.gameState after processProposedUpdate
\* returned (proposedUpdate, err)
updateGameState(gstate, proposedUpdate, err) ==
    IF err = ErrNil THEN proposedUpdate ELSE gstate

(***************************************************************************)
(* The game loop (shutthebox.go:48-126, 165-193, 430-456).  Run has a      *)
(* value receiver: it plays on its own copy of the ShutTheBox object, and   *)
(* nextTurn and updateGameState, called on that copy, change it.            *)
(***************************************************************************)

\* largest number of players the model seats
MaxPlayers == 2

\* a roll that returns the face value 1 -> nSides instead of its index
RollValuesOneBased == 1..D6

\* shutthebox.go:92-93, part_001 ExecuteOneRollAction  the index a D6 roll
\* returns: 0 -> nSides - 1
RollValues == 0..(D6 - 1)

\* a nextPlayer that does not wrap around
nextPlayerNoWrap(i, n) == i + 1

\* shutthebox.go:57-59  (player_i + 1) % len(players)
nextPlayer(i, n) == (i + 1) % n

\* a resetBox that shuts the box
resetBoxShut == ShutBox

\* shutthebox.go:62-64  gameState = OpenBox
resetBox == OpenBox

\* a win condition that is satisfied by any closed slot
checkWinConditionAnyClosed(gstate) == gstate # OpenBox

\* shutthebox.go:165-174  IsBoxEmpty(shutTheBox.gameState)
checkWinCondition(gstate) == IsBoxEmpty(gstate)

\* a check that hands the solver the field itself
checkSolutionExistsInPlace(gstate_field, target) ==
    LET r == TargetSumExists(gstate_field, target)
    IN  [ok |-> r.ok, gameState |-> r.bs, gstate |-> r.bs]

\* shutthebox.go:183-193  gstate := shutTheBox.gameState, then
\* TargetSumExists(&gstate, target): the answer, the field afterwards and
\* the local gstate afterwards
checkSolutionExists(gstate_field, target) ==
    LET r == TargetSumExists(gstate_field, target)
    IN  [ok |-> r.ok, gameState |-> gstate_field, gstate |-> r.bs]

\* the lines a player can type at the [y/n] prompt; "" is the empty line
ContinueInputs == {"", "y", "n", "x"}

\* a prompt that takes the answers the wrong way round
continuePlayingSwapped(input) ==
    IF input = "" THEN "false"
    ELSE IF input = "y" THEN "false"
    ELSE IF input = "n" THEN "true"
    ELSE "again"

\* shutthebox.go:430-456  one pass of the loop of continuePlaying: it
\* returns false, returns true, or reports an input error and asks again
continuePlaying(input) ==
    IF input = "" THEN "false"
    ELSE IF input = "y" THEN "true"
    ELSE IF input = "n" THEN "false"
    ELSE "again"

\* a move loop that leaves after any move
afterUpdateAlwaysBreak(err) == "loop"

\* a move loop that ends the game when the move is rejected
afterUpdateQuitOnError(err) == IF err # ErrNil THEN "end" ELSE "loop"

\* shutthebox.go:115-123  after updateGameState: an error is printed and the
\* prompt comes again, no error breaks to the outer loop
afterUpdate(err) == IF err # ErrNil THEN "prompt" ELSE "loop"

(***************************************************************************)
(* The whole validator and the display of a game state                     *)
(* (shutthebox.go:207-243, 275-283, 312-361).                              *)
(***************************************************************************)

RECURSIVE ProcessUpdateLoop(_, _, _, _, _)
\* shutthebox.go:215-242  the loop over the characters of update from
\* position k on, then the comparison with the target
ProcessUpdateLoop(gstate, combinedDigits, update, target, k) ==
    IF k > Len(update)
    THEN VerifyTarget(gstate, combinedDigits, target)
    ELSE LET r == ProcessDigit(gstate, combinedDigits, update[k])
         IN  IF r.err # ErrNil
             THEN [gstate |-> r.gstate, err |-> r.err]
             ELSE ProcessUpdateLoop(r.gstate, r.combinedDigits, update, target, k + 1)

\* shutthebox.go:207-243  processProposedUpdate(gstate, update, target) on a
\* whole string
processProposedUpdate(gstate, update, target) ==
    IF update = <<>> THEN RejectEmpty
    ELSE ProcessUpdateLoop(gstate, 0, update, target, 1)

\* shutthebox.go:36  const EmptySlot string = "_"
EmptySlot == "_"

\* shutthebox.go:280  strconv.Itoa of a slot value
Itoa(v) == CHOOSE c \in DOMAIN DigitValue : DigitValue[c] = v

\* shutthebox.go:33, 282  fmt.Sprintf(Slot, slot_v) with Slot = "[%s]"
Slot(slot_v) == <<"[", slot_v, "]">>

\* shutthebox.go:275-283  the visualized slot
GetSlotForPrint(gstate, slot) ==
    Slot(IF IsBitSet(gstate, slot) THEN Itoa(GetSlotValue(slot)) ELSE EmptySlot)

RECURSIVE AssembleLoop(_, _, _)
\* shutthebox.go:314-316  gstateslots += GetSlotForPrint(gstate, i) from i on
AssembleLoop(gstate, gstateslots, i) ==
    IF i < SizeBox
    THEN AssembleLoop(gstate, gstateslots \o GetSlotForPrint(gstate, i), i + 1)
    ELSE gstateslots

\* shutthebox.go:312-319  the formatted display of a game state
AssembleSlotsToDisplay(gstate) == AssembleLoop(gstate, <<>>, 0)

\* a conversion that takes every slot but the empty one for 0
ConvertSlotToBitInverted(gslots, slot) ==
    IF SubSeq(gslots, slot * 3 + 1, slot * 3 + 3) = Slot(EmptySlot) THEN 1 ELSE 0

\* shutthebox.go:350-361  gslots[slot*3:(slot*3)+3] compared with "[_]"
ConvertSlotToBit(gslots, slot) ==
    IF SubSeq(gslots, slot * 3 + 1, slot * 3 + 3) = Slot(EmptySlot) THEN 0 ELSE 1

RECURSIVE ConvertLoop(_, _, _)
\* shutthebox.go:331-334  gstate |= (ConvertSlotToBit(gslots, i) << i) from
\* i on; bit i of gstate is still clear when slot i is converted
ConvertLoop(gslots, gstate, i) ==
    IF i < SizeBox
    THEN ConvertLoop(gslots, gstate + ShiftLeft(ConvertSlotToBit(gslots, i), i), i + 1)
    ELSE gstate

\* shutthebox.go:329-337  the game state a display stands for
ConvertSlotsToGameState(gslots) == ConvertLoop(gslots, 0, 0)

\* largest player list the turn test seats
MaxSeats == 4

\* part_007:490, 522  the moves TestNextTurn makes between advances
TestMoves ==
    { [update |-> <<"1", "4", "7">>, target |-> 12],
      [update |-> <<"2", "6">>, target |-> 8] }

(***************************************************************************)
(* The probability pipeline (probgen.go:20-81): produceEvent feeds the     *)
(* channel `events`, consumeEvents ranges over it and fills the table.     *)
(***************************************************************************)

\* largest pe.numEvents the model runs
MaxEvents == 3

\* longest pe.outcomes the model runs
MaxOutcomes == 2

\* coinflip.go:11-12  the labels an outcome list is made of
Labels == {"Heads", "Tails"}

\* the non-empty outcome lists GenerateProbabilisticEvent lets through
\* (probgen.go:117-120)
OutcomeLists == UNION { [1..n -> Labels] : n \in 1..MaxOutcomes }

\* a channel made with room for one element: make(chan string, 1)
HasRoomForOne(buffer) == Len(buffer) < 1

\* probgen.go:76  events := make(chan string): the channel has no buffer, so
\* a send never completes without a receiver
HasRoom(buffer) == Len(buffer) < 0

\* a selection that is off by one position
getProbOutcomeNext(outcomes, rngn) == outcomes[((rngn + 1) % Len(outcomes)) + 1]

\* probgen.go:36-38  pe.outcomes[rngn], the slice being indexed from 0
getProbOutcome(outcomes, rngn) == outcomes[rngn + 1]

\* probgen.go:90-92  the values randNumGen(num_outcomes) can return
ProbValues(outcomes) == 0..(Len(outcomes) - 1)

\* largest number the replayed sequence hardcoded_rng_nums holds
MaxRngNum == 3

\* probgen_test.go:27-29  the sequences initHardcodedRngNums can seed for a
\* run of numEvents draws
RngNumLists(n) == [1..n -> 0..MaxRngNum]

\* probgen_test.go:48-52  hardcoded_rng_nums[hardcoded_rng_num_i], the slice
\* being indexed from 0
getHardcodedRngNum(rng_nums, rng_num_i) == rng_nums[rng_num_i + 1]

\* a replay whose iterator never moves
PRNG_for_testingStuck(rng_nums, rng_num_i, num_outcomes) ==
    getHardcodedRngNum(rng_nums, 0) % num_outcomes

\* probgen_test.go:56-58  the next replayed number, reduced
PRNG_for_testing(rng_nums, rng_num_i, num_outcomes) ==
    getHardcodedRngNum(rng_nums, rng_num_i) % num_outcomes

\* probgen.go:31-34  pe.prng(len(pe.outcomes)): what the injected source
\* can return at this draw
getProbValue(source, outcomes, rng_nums, rng_num_i) ==
    IF source = "PRNG_for_testing"
    THEN {PRNG_for_testing(rng_nums, rng_num_i, Len(outcomes))}
    ELSE ProbValues(outcomes)

\* a loop that runs once more
ProducerContinuesOnceMore(i, numEvents) == i <= numEvents

\* probgen.go:46  the loop condition i < pe.numEvents
ProducerContinues(i, numEvents) == i < numEvents

\* an increment that overwrites the count
CountEventOnce(results, event) ==
    IF event \in DOMAIN results
    THEN [results EXCEPT ![event] = 1]
    ELSE [k \in DOMAIN results \cup {event} |-> IF k = event THEN 1 ELSE results[k]]

\* probgen.go:61  results[event]++ on a map: a missing key counts from 0
CountEvent(results, event) ==
    IF event \in DOMAIN results
    THEN [results EXCEPT ![event] = @ + 1]
    ELSE [k \in DOMAIN results \cup {event} |-> IF k = event THEN 1 ELSE results[k]]

\* a range loop that gives up as soon as nothing is ready
StreamEndedEager(closed, buffer) == buffer = <<>>

\* a range loop that ends only on a closed channel that still holds an element
StreamEndedNonEmpty(closed, buffer) == closed /\ buffer # <<>>

\* probgen.go:60  `range in` ends when the channel is closed and drained
StreamEnded(closed, buffer) == closed /\ buffer = <<>>

\* probgen.go:58  results := make(map[string]int)
EmptyTable == [k \in {} |-> 0]

(***************************************************************************)
(* Validation and the general entry point (probgen.go:116-163,             *)
(* diceroll.go:15-37, 92-111, 174-198, coinflip.go:51-70).                 *)
(***************************************************************************)

\* diceroll.go:19-25  the dice types (D6 is defined above)
D4 == 4
D10 == 10
D12 == 12
D20 == 20

\* largest number of sides the model asks a DiceRoll for
MaxSides == 21

\* probgen.go:16-17, diceroll.go:15  the error values
ErrInvalidEvents == <<"ErrInvalidEvents">>
ErrInvalidPossibilities == <<"ErrInvalidPossibilities">>
ErrInvalidDiceType == <<"ErrInvalidDiceType">>

\* diceroll.go:31-37  all possible dice values
dicePossibleValues ==
    << "1", "2", "3", "4", "5", "6", "7", "8", "9", "10",
       "11", "12", "13", "14", "15", "16", "17", "18", "19", "20" >>

\* a dice type test that accepts every number of sides from D4 to D20
validDiceTypeInRange(dType) == dType >= D4 /\ dType <= D20

\* diceroll.go:174-181  true if dType in {D4, D6, D10, D12, D20}
validDiceType(dType) == dType \in {D4, D6, D10, D12, D20}

\* diceroll.go:196-198  dicePossibleValues[:dType]
possibleDiceValues(dType) == SubSeq(dicePossibleValues, 1, dType)

\* a generic validation that lets the count 0 through
validateNonNegative(events) ==
    IF events < 0
    THEN [ok |-> FALSE, err |-> ErrInvalidEvents]
    ELSE [ok |-> TRUE, err |-> ErrNil]

\* probgen.go:157-163  the generic validation: getNumEvents() < 1 fails
validate(events) ==
    IF events < 1
    THEN [ok |-> FALSE, err |-> ErrInvalidEvents]
    ELSE [ok |-> TRUE, err |-> ErrNil]

\* diceroll.go:92-99, coinflip.go:51-54  probEventType.validate(): a DiceRoll
\* checks its dice type, a CoinFlip has nothing to check
typeValidate(kind, sides) ==
    IF kind = "DiceRoll" /\ ~validDiceType(sides)
    THEN [ok |-> FALSE, err |-> ErrInvalidDiceType]
    ELSE [ok |-> TRUE, err |-> ErrNil]

\* diceroll.go:102-104, coinflip.go:57-61  the possibilities execute() hands
\* to GenerateProbabilisticEvent
typePossibilities(kind, sides) ==
    IF kind = "DiceRoll" THEN possibleDiceValues(sides) ELSE <<"Heads", "Tails">>

\* the event counts the model asks for: negative, zero and positive
EventCounts == (0 - 1)..MaxEvents

(***************************************************************************)
(* State                                                                   *)
(***************************************************************************)
VARIABLES
    sPc,        \* solver harness: "ready" before the call, "done" after
    sIn,        \* the bitset the caller passed in, as it was at the call
    sTarget,    \* the target of the call
    sBitset,    \* the caller's integer (what the pointer argument designates)
    sRes,       \* the boolean TargetSumExists returned
    gameState,  \* ShutTheBox.gameState
    uPc,        \* updateGameState: "idle" between calls, "scan" inside the
                \* loop of processProposedUpdate, "called" once it has returned
    uPrev,      \* gameState when updateGameState was called
    uMove,      \* the characters of the update string read so far
    uWhole,     \* whether uMove is the whole update string
    uTarget,    \* the target of the call
    uGstate,    \* processProposedUpdate's working copy gstate
    uCombined,  \* combinedDigits
    uOut,       \* what processProposedUpdate returned: [gstate, err]
    numEvents,  \* pe.numEvents
    outcomes,   \* pe.outcomes
    prng,       \* pe.prng: "randNumGen" or "PRNG_for_testing"
    hardcoded_rng_nums,  \* the sequence PRNG_for_testing replays
    hardcoded_rng_num_i, \* its iterator
    pPc,        \* produceEvent: "loop" at the loop head, "send" blocked in
                \* `out <- v`, "done" after the deferred close
    pI,         \* the loop variable i of produceEvent
    pPending,   \* the value of the send the producer is blocked in
    chanBuf,    \* the elements buffered in the channel
    chanClosed, \* whether close(out) has run
    closeCount, \* how many times close(out) has run
    cPc,        \* consumeEvents: "recv" waiting in range, "agg" holding an
                \* event, "returned" after computeProbability returned
    cEvent,     \* the event the consumer holds
    results,    \* the table consumeEvents builds
    retTable,   \* the table computeProbability handed to its caller
    drawn,      \* history: the values the random source returned, in order
    received,   \* history: the events the consumer received, in order
    rPc,        \* Run: "loop" at the head of the outer loop, "won" inside
                \* continuePlaying, "rolled" with the target computed, "lost"
                \* after a failed solvability check, "prompt" at the move
                \* prompt, "scan" inside updateGameState, "end" returned
    players_n,  \* len(shutTheBox.players)
    player_i,   \* shutTheBox.player_i
    rTarget,    \* target
    rCopy,      \* the local gstate of checkSolutionExists after the solver
    rGstate,    \* the working copy gstate of processProposedUpdate
    rCombined,  \* combinedDigits
    rRead,      \* how many characters of the move have been read
    rRejected,  \* history: updateGameState returned an error for the last move
    rAnswer,    \* the line last typed at the [y/n] prompt
    rNewRound,  \* history: no dice have been rolled since the box was opened
    rAccepted,  \* history: the sum of the targets of the moves accepted in the round
    vPc,        \* ValidateAndExecute: "validate" before the validations,
                \* "generate" at the call of GenerateProbabilisticEvent,
                \* "computing" inside computeProbability, "returned" after
    vKind,      \* the caller: "CoinFlip" or "DiceRoll" through
                \* ValidateAndExecute, "direct" for a direct call of
                \* GenerateProbabilisticEvent
    vEvents,    \* the event count of the event type, or the argument events
    numSides,   \* diceRoll.numSides
    vPossibilities, \* the argument possibilities
    vErr,       \* the error returned
    vDisplayed, \* whether display(res) has run
    tPc,        \* turn test: "test" while TestNextTurn drives the object
    tStart,     \* history: player_i when the advances began to be counted
    tCount,     \* history: the advances of player_i counted since then
    dPc,        \* display test: "ready", "shown" after
                \* AssembleSlotsToDisplay, "converted" after
                \* ConvertSlotsToGameState
    dGstate,    \* the game state displayed
    dDisplay,   \* the display string, a sequence of characters
    dBack       \* the game state converted back from the display

solverVars == <<sPc, sIn, sTarget, sBitset, sRes>>

boxVars == <<gameState, uPc, uPrev, uMove, uWhole, uTarget, uGstate, uCombined, uOut>>

pipeVars == <<numEvents, outcomes, prng, hardcoded_rng_nums, hardcoded_rng_num_i, pPc, pI, pPending, chanBuf, chanClosed, closeCount,
              cPc, cEvent, results, retTable, drawn, received>>

runVars == <<rPc, players_n, player_i, rTarget, rCopy, rGstate, rCombined, rRead, rRejected,
             rAnswer, rNewRound, rAccepted>>

unitVars == <<tPc, tStart, tCount, dPc, dGstate, dDisplay, dBack>>

valVars == <<vPc, vKind, vEvents, numSides, vPossibilities, vErr, vDisplayed>>

\* the variables of the move specification other than the board
moveVars == <<uPc, uPrev, uMove, uWhole, uTarget, uGstate, uCombined, uOut>>

vars == <<sPc, sIn, sTarget, sBitset, sRes,
          gameState, uPc, uPrev, uMove, uWhole, uTarget, uGstate, uCombined, uOut,
          numEvents, outcomes, prng, hardcoded_rng_nums, hardcoded_rng_num_i,
          pPc, pI, pPending, chanBuf, chanClosed, closeCount,
          cPc, cEvent, results, retTable, drawn, received,
          rPc, players_n, player_i, rTarget, rCopy, rGstate, rCombined, rRead, rRejected,
          rAnswer, rNewRound, rAccepted,
          vPc, vKind, vEvents, numSides, vPossibilities, vErr, vDisplayed,
          tPc, tStart, tCount, dPc, dGstate, dDisplay, dBack>>

\* each specification runs one part of the program; the variables of the
\* other parts keep the values below
PipeIdle ==
    /\ numEvents = 0
    /\ outcomes = <<>>
    /\ prng = "randNumGen"
    /\ hardcoded_rng_nums = <<>>
    /\ hardcoded_rng_num_i = 0
    /\ pPc = "off"
    /\ pI = 0
    /\ pPending = ""
    /\ chanBuf = <<>>
    /\ chanClosed = FALSE
    /\ closeCount = 0
    /\ cPc = "off"
    /\ cEvent = ""
    /\ results = EmptyTable
    /\ retTable = EmptyTable
    /\ drawn = <<>>
    /\ received = <<>>

BoxIdle ==
    /\ gameState = OpenBox
    /\ uPc = "idle"
    /\ uPrev = OpenBox
    /\ uMove = <<>>
    /\ uWhole = FALSE
    /\ uTarget = 0
    /\ uGstate = OpenBox
    /\ uCombined = 0
    /\ uOut = [gstate |-> OpenBox, err |-> ErrNil]

UnitIdle ==
    /\ tPc = "off"
    /\ tStart = 0
    /\ tCount = 0
    /\ dPc = "off"
    /\ dGstate = 0
    /\ dDisplay = <<>>
    /\ dBack = 0

ValIdle ==
    /\ vPc = "off"
    /\ vKind = "direct"
    /\ vEvents = 0
    /\ numSides = 0
    /\ vPossibilities = <<>>
    /\ vErr = ErrNil
    /\ vDisplayed = FALSE

RunIdle ==
    /\ rPc = "off"
    /\ players_n = 1
    /\ player_i = 0
    /\ rTarget = 0
    /\ rCopy = 0
    /\ rGstate = 0
    /\ rCombined = 0
    /\ rRead = 0
    /\ rRejected = FALSE
    /\ rAnswer = ""
    /\ rNewRound = FALSE
    /\ rAccepted = 0

SolverIdle ==
    /\ sPc = "off"
    /\ sIn = 0
    /\ sTarget = 0
    /\ sBitset = 0
    /\ sRes = FALSE

(***************************************************************************)
(* Solver specification: one call of TargetSumExists on any 9 bit board    *)
(* and any target two D6 can produce.                                      *)
(***************************************************************************)
SolverInit ==
    /\ UnitIdle
    /\ sPc = "ready"
    /\ sIn \in Bitsets
    /\ sTarget \in Targets
    /\ sBitset = sIn
    /\ sRes = FALSE
    /\ BoxIdle
    /\ PipeIdle
    /\ RunIdle
    /\ ValIdle

\* bitset_c := bitset; TargetSumExists(&bitset_c, target)
SolverCall ==
    /\ sPc = "ready"
    /\ LET r == TargetSumExists(sBitset, sTarget)
       IN  /\ sRes' = r.ok
           /\ sBitset' = r.bs
    /\ sPc' = "done"
    /\ UNCHANGED <<sIn, sTarget>>
    /\ UNCHANGED <<boxVars, pipeVars, runVars, valVars>>
    /\ UNCHANGED unitVars

SolverNext == SolverCall

SpecSolver == SolverInit /\ [][SolverNext]_vars

(***************************************************************************)
(* Move specification: a ShutTheBox object driven through updateGameState  *)
(* with any move string and any target, as TestUpdateGameState drives it.  *)
(***************************************************************************)
BoxInit ==
    /\ UnitIdle
    /\ SolverIdle
    /\ PipeIdle
    /\ RunIdle
    /\ ValIdle
    \* NewShutBox: gameState: OpenBox
    /\ BoxIdle

\* shutthebox.go:137, 207-213  updateGameState(update, target) enters
\* processProposedUpdate: gstate is a copy of gameState, combinedDigits is 0
\* and the empty string returns at once
CallUpdateGameState ==
    /\ uPc = "idle"
    /\ \E target \in Targets, empty \in BOOLEAN :
        /\ uTarget' = target
        /\ uWhole' = empty
        /\ uPc' = IF empty THEN "called" ELSE "scan"
        /\ uOut' = IF empty THEN RejectEmpty ELSE uOut
        /\ gameState' = IF empty
                        THEN updateGameState(gameState, RejectEmpty.gstate, RejectEmpty.err)
                        ELSE gameState
    /\ uPrev' = gameState
    /\ uMove' = <<>>
    /\ uGstate' = gameState
    /\ uCombined' = 0
    /\ UNCHANGED <<solverVars, pipeVars, runVars, valVars>>
    /\ UNCHANGED unitVars

\* shutthebox.go:215-235  the loop reads the next character d of update;
\* an offending character returns (-1, err) to updateGameState (138-142)
ScanDigit ==
    /\ uPc = "scan"
    /\ Len(uMove) < MaxMoveLen
    /\ \E d \in Chars :
        LET r == ProcessDigit(uGstate, uCombined, d)
        IN  /\ uMove' = Append(uMove, d)
            /\ uCombined' = r.combinedDigits
            /\ IF r.err = ErrNil
               THEN /\ uGstate' = r.gstate
                    /\ UNCHANGED <<uPc, uOut, gameState>>
               ELSE /\ uPc' = "called"
                    /\ uOut' = [gstate |-> r.gstate, err |-> r.err]
                    /\ gameState' = updateGameState(gameState, r.gstate, r.err)
                    /\ UNCHANGED uGstate
    /\ UNCHANGED <<uPrev, uWhole, uTarget>>
    /\ UNCHANGED <<solverVars, pipeVars, runVars, valVars>>
    /\ UNCHANGED unitVars

\* shutthebox.go:237-242, 138-142  the string is exhausted: the sum is
\* compared with the target and updateGameState stores the result or not
EndOfUpdate ==
    /\ uPc = "scan"
    /\ Len(uMove) >= 1
    /\ LET r == VerifyTarget(uGstate, uCombined, uTarget)
       IN  /\ uOut' = r
           /\ gameState' = updateGameState(gameState, r.gstate, r.err)
    /\ uWhole' = TRUE
    /\ uPc' = "called"
    /\ UNCHANGED <<uPrev, uMove, uTarget, uGstate, uCombined>>
    /\ UNCHANGED <<solverVars, pipeVars, runVars, valVars>>
    /\ UNCHANGED unitVars

\* the caller has looked at the error; the next call may follow
ReturnFromUpdate ==
    /\ uPc = "called"
    /\ uPc' = "idle"
    /\ uPrev' = gameState
    /\ uMove' = <<>>
    /\ uWhole' = FALSE
    /\ uTarget' = 0
    /\ uGstate' = gameState
    /\ uCombined' = 0
    /\ uOut' = [gstate |-> gameState, err |-> ErrNil]
    /\ UNCHANGED gameState
    /\ UNCHANGED <<solverVars, pipeVars, runVars, valVars>>
    /\ UNCHANGED unitVars

BoxNext == CallUpdateGameState \/ ScanDigit \/ EndOfUpdate \/ ReturnFromUpdate

SpecBox == BoxInit /\ [][BoxNext]_vars

(***************************************************************************)
(* Pipeline specification: one call of computeProbability, the producer    *)
(* goroutine and the consumer interleaved step by step.                    *)
(***************************************************************************)

\* probgen.go:75-80, 58  the channel is made, the producer goroutine started
\* and the consumer has made its table
PipeInit ==
    /\ UnitIdle
    /\ SolverIdle
    /\ BoxIdle
    /\ RunIdle
    /\ ValIdle
    /\ numEvents \in 0..MaxEvents
    /\ outcomes \in OutcomeLists
    \* probgen.go:119-122  prng: randNumGen
    /\ prng = "randNumGen"
    /\ hardcoded_rng_nums = <<>>
    /\ hardcoded_rng_num_i = 0
    /\ pPc = "loop"
    /\ pI = 0
    /\ pPending = ""
    /\ chanBuf = <<>>
    /\ chanClosed = FALSE
    /\ closeCount = 0
    /\ cPc = "recv"
    /\ cEvent = ""
    /\ results = EmptyTable
    /\ retTable = EmptyTable
    /\ drawn = <<>>
    /\ received = <<>>

\* probgen.go:46-47  the producer draws the next event and starts sending
\* it: the send completes at once if the buffer has room, else it blocks
ProducerDraw ==
    /\ pPc = "loop"
    /\ ProducerContinues(pI, numEvents)
    /\ \E rngn \in getProbValue(prng, outcomes, hardcoded_rng_nums, hardcoded_rng_num_i) :
        /\ drawn' = Append(drawn, rngn)
        /\ IF HasRoom(chanBuf)
           THEN /\ chanBuf' = Append(chanBuf, getProbOutcome(outcomes, rngn))
                /\ pI' = pI + 1
                /\ UNCHANGED <<pPc, pPending>>
           ELSE /\ pPc' = "send"
                /\ pPending' = getProbOutcome(outcomes, rngn)
                /\ UNCHANGED <<chanBuf, pI>>
    /\ hardcoded_rng_num_i' = IF prng = "PRNG_for_testing"
                              THEN hardcoded_rng_num_i + 1
                              ELSE hardcoded_rng_num_i
    /\ UNCHANGED <<numEvents, outcomes, prng, hardcoded_rng_nums, chanClosed, closeCount,
                   cPc, cEvent, results, retTable, received>>
    /\ UNCHANGED <<solverVars, boxVars, runVars, valVars>>
    /\ UNCHANGED unitVars

\* probgen.go:45, 48-49  the loop is over and the deferred close(out) runs
ProducerClose ==
    /\ pPc = "loop"
    /\ ~ProducerContinues(pI, numEvents)
    /\ chanClosed' = TRUE
    /\ closeCount' = closeCount + 1
    /\ pPc' = "done"
    /\ UNCHANGED <<prng, hardcoded_rng_nums, hardcoded_rng_num_i>>
    /\ UNCHANGED <<numEvents, outcomes, pI, pPending, chanBuf, cPc, cEvent, results,
                   retTable, drawn, received>>
    /\ UNCHANGED <<solverVars, boxVars, runVars, valVars>>
    /\ UNCHANGED unitVars

\* probgen.go:60  `event := range in` receives: the oldest buffered element
\* (a blocked sender's value then moves into the buffer), or the value of
\* the blocked sender directly; the sender's send returns and its i++ runs
ConsumerReceive ==
    /\ cPc = "recv"
    /\ chanBuf # <<>> \/ pPc = "send"
    /\ IF chanBuf # <<>>
       THEN /\ cEvent' = Head(chanBuf)
            /\ received' = Append(received, Head(chanBuf))
            /\ chanBuf' = IF pPc = "send" THEN Append(Tail(chanBuf), pPending)
                                          ELSE Tail(chanBuf)
       ELSE /\ cEvent' = pPending
            /\ received' = Append(received, pPending)
            /\ UNCHANGED chanBuf
    /\ IF pPc = "send"
       THEN pPc' = "loop" /\ pI' = pI + 1
       ELSE UNCHANGED <<pPc, pI>>
    /\ cPc' = "agg"
    /\ UNCHANGED <<prng, hardcoded_rng_nums, hardcoded_rng_num_i>>
    /\ UNCHANGED <<numEvents, outcomes, pPending, chanClosed, closeCount, results,
                   retTable, drawn>>
    /\ UNCHANGED <<solverVars, boxVars, runVars, valVars>>
    /\ UNCHANGED unitVars

\* probgen.go:61  results[event]++
ConsumerAggregate ==
    /\ cPc = "agg"
    /\ results' = CountEvent(results, cEvent)
    /\ cPc' = "recv"
    /\ UNCHANGED <<prng, hardcoded_rng_nums, hardcoded_rng_num_i>>
    /\ UNCHANGED <<numEvents, outcomes, pPc, pI, pPending, chanBuf, chanClosed,
                   closeCount, cEvent, retTable, drawn, received>>
    /\ UNCHANGED <<solverVars, boxVars, runVars, valVars>>
    /\ UNCHANGED unitVars

\* probgen.go:60, 64, 80  the range loop sees the channel closed and empty,
\* consumeEvents returns results and computeProbability returns it
ConsumerReturn ==
    /\ cPc = "recv"
    /\ StreamEnded(chanClosed, chanBuf)
    /\ cPc' = "returned"
    /\ retTable' = results
    /\ UNCHANGED <<prng, hardcoded_rng_nums, hardcoded_rng_num_i>>
    /\ UNCHANGED <<numEvents, outcomes, pPc, pI, pPending, chanBuf, chanClosed,
                   closeCount, cEvent, results, drawn, received>>
    /\ UNCHANGED <<solverVars, boxVars, runVars, valVars>>
    /\ UNCHANGED unitVars

PipeNext ==
    ProducerDraw \/ ProducerClose \/ ConsumerReceive \/ ConsumerAggregate \/ ConsumerReturn

SpecPipe == PipeInit /\ [][PipeNext]_vars

\* the steps of the producer goroutine and of the consumer
ProducerStep == ProducerDraw \/ ProducerClose
ConsumerStep == ConsumerReceive \/ ConsumerAggregate \/ ConsumerReturn

\* the Go scheduler runs every goroutine that stays runnable
FairSpecPipe ==
    /\ PipeInit
    /\ [][PipeNext]_vars
    /\ WF_vars(ProducerStep)
    /\ WF_vars(ConsumerStep)

(***************************************************************************)
(* Replay specification: computeProbability with the random source of the  *)
(* tests, which replays a seeded sequence (TestGrnProbEventCoinFlip).      *)
(***************************************************************************)

\* probgen_test.go:27-29, 283-289  initHardcodedRngNums, then the ProbEvent
\* is built with prng: PRNG_for_testing and computeProbability is called
ReplayInit ==
    /\ UnitIdle
    /\ SolverIdle
    /\ BoxIdle
    /\ RunIdle
    /\ ValIdle
    /\ numEvents \in 0..MaxEvents
    /\ outcomes \in OutcomeLists
    /\ prng = "PRNG_for_testing"
    /\ hardcoded_rng_nums \in RngNumLists(numEvents)
    /\ hardcoded_rng_num_i = 0
    /\ pPc = "loop"
    /\ pI = 0
    /\ pPending = ""
    /\ chanBuf = <<>>
    /\ chanClosed = FALSE
    /\ closeCount = 0
    /\ cPc = "recv"
    /\ cEvent = ""
    /\ results = EmptyTable
    /\ retTable = EmptyTable
    /\ drawn = <<>>
    /\ received = <<>>

SpecReplay == ReplayInit /\ [][PipeNext]_vars

(***************************************************************************)
(* Game specification: NewShutBox, then Run, with any dice, any line at    *)
(* the move prompt and any line at the [y/n] prompt.                       *)
(***************************************************************************)

\* shutthebox.go:48-54, options.go:405  NewShutBox(players), then Run
RunInit ==
    /\ UnitIdle
    /\ SolverIdle
    /\ PipeIdle
    /\ ValIdle
    /\ uPc = "idle"
    /\ uPrev = OpenBox
    /\ uMove = <<>>
    /\ uWhole = FALSE
    /\ uTarget = 0
    /\ uGstate = OpenBox
    /\ uCombined = 0
    /\ uOut = [gstate |-> OpenBox, err |-> ErrNil]
    /\ gameState = OpenBox
    /\ players_n \in 1..MaxPlayers
    /\ player_i = 0
    /\ rPc = "loop"
    /\ rTarget = 0
    /\ rCopy = 0
    /\ rGstate = 0
    /\ rCombined = 0
    /\ rRead = 0
    /\ rRejected = FALSE
    /\ rAnswer = ""
    /\ rNewRound = TRUE
    /\ rAccepted = 0

\* shutthebox.go:77-80  the box is shut at the head of the loop: the winner
\* is announced and continuePlaying starts asking
RunWin ==
    /\ rPc = "loop"
    /\ checkWinCondition(gameState)
    /\ rPc' = "won"
    /\ rAnswer' = ""
    /\ UNCHANGED <<gameState, players_n, rAccepted, player_i, rTarget, rCopy, rGstate, rCombined,
                   rRead, rRejected, rNewRound>>
    /\ UNCHANGED <<solverVars, moveVars, pipeVars, valVars>>
    /\ UNCHANGED unitVars

\* shutthebox.go:80-88, 430-456  a line is typed at the [y/n] prompt: Run
\* returns, or nextTurn runs and the loop continues, or the prompt repeats
RunContinue ==
    /\ rPc = "won"
    /\ \E input \in ContinueInputs :
        /\ rAnswer' = input
        /\ IF continuePlaying(input) = "true"
           THEN /\ gameState' = resetBox
                /\ player_i' = nextPlayer(player_i, players_n)
                /\ rNewRound' = TRUE
                /\ rAccepted' = 0
                /\ rPc' = "loop"
           ELSE /\ rPc' = IF continuePlaying(input) = "false" THEN "end" ELSE "won"
                /\ UNCHANGED <<gameState, player_i, rNewRound, rAccepted>>
    /\ UNCHANGED <<players_n, rTarget, rCopy, rGstate, rCombined, rRead, rRejected>>
    /\ UNCHANGED <<solverVars, moveVars, pipeVars, valVars>>
    /\ UNCHANGED unitVars

\* shutthebox.go:91-95  the box is not shut: two D6 are rolled for the player
RunRoll ==
    /\ rPc = "loop"
    /\ ~checkWinCondition(gameState)
    /\ \E i1 \in RollValues, i2 \in RollValues :
        rTarget' = GetSlotValue(i1) + GetSlotValue(i2)
    /\ rPc' = "rolled"
    /\ rNewRound' = FALSE
    /\ rAnswer' = ""
    /\ UNCHANGED <<gameState, players_n, rAccepted, player_i, rCopy, rGstate, rCombined, rRead, rRejected>>
    /\ UNCHANGED <<solverVars, moveVars, pipeVars, valVars>>
    /\ UNCHANGED unitVars

\* shutthebox.go:97, 183-193  checkSolutionExists(target)
RunCheckSolution ==
    /\ rPc = "rolled"
    /\ LET c == checkSolutionExists(gameState, rTarget)
       IN  /\ gameState' = c.gameState
           /\ rCopy' = c.gstate
           /\ rPc' = IF c.ok THEN "prompt" ELSE "lost"
    /\ UNCHANGED <<players_n, rAccepted, player_i, rTarget, rGstate, rCombined, rRead, rRejected, rAnswer,
                   rNewRound>>
    /\ UNCHANGED <<solverVars, moveVars, pipeVars, valVars>>
    /\ UNCHANGED unitVars

\* shutthebox.go:98-100  lost: nextTurn, then the loop continues
RunLost ==
    /\ rPc = "lost"
    /\ gameState' = resetBox
    /\ player_i' = nextPlayer(player_i, players_n)
    /\ rNewRound' = TRUE
    /\ rAccepted' = 0
    /\ rCopy' = 0
    /\ rTarget' = 0
    /\ rPc' = "loop"
    /\ UNCHANGED <<players_n, rGstate, rCombined, rRead, rRejected, rAnswer>>
    /\ UNCHANGED <<solverVars, moveVars, pipeVars, valVars>>
    /\ UNCHANGED unitVars

\* shutthebox.go:105-112, utilities.go:39-46  the empty line at the move
\* prompt: game_done, Run returns
RunQuit ==
    /\ rPc = "prompt"
    /\ rPc' = "end"
    /\ UNCHANGED <<gameState, players_n, rAccepted, player_i, rTarget, rCopy, rGstate, rCombined,
                   rRead, rRejected, rAnswer, rNewRound>>
    /\ UNCHANGED <<solverVars, moveVars, pipeVars, valVars>>
    /\ UNCHANGED unitVars

\* shutthebox.go:105-115, 137, 207-214  a line that is not empty is typed:
\* updateGameState(input_slots, target) enters processProposedUpdate
RunReadMove ==
    /\ rPc = "prompt"
    /\ rPc' = "scan"
    /\ rGstate' = gameState
    /\ rCombined' = 0
    /\ rRead' = 0
    /\ rRejected' = FALSE
    /\ UNCHANGED <<gameState, players_n, rAccepted, player_i, rTarget, rCopy, rAnswer, rNewRound>>
    /\ UNCHANGED <<solverVars, moveVars, pipeVars, valVars>>
    /\ UNCHANGED unitVars

\* shutthebox.go:215-235, 138-142, 116-119  the next character of the move;
\* an offending one makes updateGameState return its error, which Run prints
\* before it prompts again
RunScanDigit ==
    /\ rPc = "scan"
    /\ rRead < MaxMoveLen
    /\ \E d \in Chars :
        LET r == ProcessDigit(rGstate, rCombined, d)
        IN  IF r.err = ErrNil
            THEN /\ rGstate' = r.gstate
                 /\ rCombined' = r.combinedDigits
                 /\ rRead' = rRead + 1
                 /\ UNCHANGED <<gameState, rPc, rRejected>>
            ELSE /\ gameState' = updateGameState(gameState, r.gstate, r.err)
                 /\ rRejected' = (r.err # ErrNil)
                 /\ rPc' = afterUpdate(r.err)
                 /\ rGstate' = 0
                 /\ rCombined' = 0
                 /\ rRead' = 0
    /\ UNCHANGED <<players_n, rAccepted, player_i, rTarget, rCopy, rAnswer, rNewRound>>
    /\ UNCHANGED <<solverVars, moveVars, pipeVars, valVars>>
    /\ UNCHANGED unitVars

\* shutthebox.go:237-242, 138-142, 115-123  the move is exhausted: the sum
\* is compared with the target, updateGameState stores the result or not,
\* and Run prompts again or breaks to the outer loop
RunEndOfUpdate ==
    /\ rPc = "scan"
    /\ rRead >= 1
    /\ LET r == VerifyTarget(rGstate, rCombined, rTarget)
       IN  /\ gameState' = updateGameState(gameState, r.gstate, r.err)
           /\ rRejected' = (r.err # ErrNil)
           /\ rPc' = afterUpdate(r.err)
           /\ rCopy' = IF afterUpdate(r.err) = "loop" THEN 0 ELSE rCopy
           /\ rTarget' = IF afterUpdate(r.err) = "loop" THEN 0 ELSE rTarget
           /\ rAccepted' = IF r.err = ErrNil THEN rAccepted + rTarget ELSE rAccepted
    /\ rGstate' = 0
    /\ rCombined' = 0
    /\ rRead' = 0
    /\ UNCHANGED <<players_n, player_i, rAnswer, rNewRound>>
    /\ UNCHANGED <<solverVars, moveVars, pipeVars, valVars>>
    /\ UNCHANGED unitVars

RunNext ==
    \/ RunWin
    \/ RunContinue
    \/ RunRoll
    \/ RunCheckSolution
    \/ RunLost
    \/ RunQuit
    \/ RunReadMove
    \/ RunScanDigit
    \/ RunEndOfUpdate

SpecRun == RunInit /\ [][RunNext]_vars

(***************************************************************************)
(* Menu specification: the Shut the Box menu option (options.go:395-444)   *)
(* reads the number of players and their names, makes the game and runs it.*)
(***************************************************************************)

\* the lines typed at the prompt for the number of players: the empty line,
\* a line that is no number, and numbers
CountLines == {"", "x", "-1", "0", "1"}

\* utilities.go:26  strconv.Atoi(input_str) on such a line
AtoiLine(line) ==
    CASE line = "-1" -> [v |-> 0 - 1, err |-> FALSE]
      [] line = "0"  -> [v |-> 0, err |-> FALSE]
      [] line = "1"  -> [v |-> 1, err |-> FALSE]
      [] OTHER       -> [v |-> 0, err |-> TRUE]

\* utilities.go:19-29  ProcessInputInt: (done, input_i, err)
ProcessInputInt(line) ==
    IF line = ""
    THEN [done |-> TRUE, input_i |-> 0 - 1, err |-> FALSE]
    ELSE [done |-> FALSE, input_i |-> AtoiLine(line).v, err |-> AtoiLine(line).err]

\* the lines typed at the prompt for a player's name
NameLines == {"", "p"}

\* the name lines typed for a count: one per player the loop asks for
NameInputs(line) ==
    LET c == ProcessInputInt(line)
    IN  IF c.done \/ c.err \/ c.input_i < 0
        THEN {<<>>}
        ELSE [1..c.input_i -> NameLines]

\* options.go:419-444  getPlayers: what it returns, "done", "error" or the
\* player list (its length), or the panic of make([]string, players_n) with a
\* negative length
getPlayers(line, names) ==
    LET c == ProcessInputInt(line)
    IN  IF c.done THEN [outcome |-> "done", players |-> 0]
        ELSE IF c.err THEN [outcome |-> "error", players |-> 0]
        ELSE IF c.input_i < 0 THEN [outcome |-> "panic", players |-> 0]
        ELSE IF \E i \in 1..c.input_i : names[i] = ""
        THEN [outcome |-> "done", players |-> 0]
        ELSE [outcome |-> "players", players |-> c.input_i]

\* options.go:395  the option has been chosen, nothing has been typed
MenuInit ==
    /\ UnitIdle
    /\ SolverIdle
    /\ PipeIdle
    /\ ValIdle
    /\ uPc = "idle"
    /\ uPrev = OpenBox
    /\ uMove = <<>>
    /\ uWhole = FALSE
    /\ uTarget = 0
    /\ uGstate = OpenBox
    /\ uCombined = 0
    /\ uOut = [gstate |-> OpenBox, err |-> ErrNil]
    /\ gameState = OpenBox
    /\ players_n = 0
    /\ player_i = 0
    /\ rPc = "menu"
    /\ rTarget = 0
    /\ rCopy = 0
    /\ rGstate = 0
    /\ rCombined = 0
    /\ rRead = 0
    /\ rRejected = FALSE
    /\ rAnswer = ""
    /\ rNewRound = FALSE
    /\ rAccepted = 0

\* options.go:395-409, shutthebox.go:48-54  process(): getPlayers, then
\* NewShutBox(players) and the call of Run
OptShutTheBoxProcess ==
    /\ rPc = "menu"
    /\ \E line \in CountLines :
        \E names \in NameInputs(line) :
            LET g == getPlayers(line, names)
            IN  IF g.outcome = "players"
                THEN /\ players_n' = g.players
                     /\ rNewRound' = TRUE
                     /\ rPc' = "run"
                ELSE /\ rPc' = IF g.outcome = "panic" THEN "panic" ELSE "menu_back"
                     /\ UNCHANGED <<players_n, rNewRound>>
    /\ UNCHANGED <<gameState, player_i, rAccepted, rTarget, rCopy, rGstate, rCombined, rRead,
                   rRejected, rAnswer>>
    /\ UNCHANGED <<solverVars, moveVars, pipeVars, valVars>>
    /\ UNCHANGED unitVars

\* shutthebox.go:77, 152-157  Run's first printGameState indexes
\* players[player_i]: with an empty list the index is out of range
RunFirstPrint ==
    /\ rPc = "run"
    /\ rPc' = IF player_i < players_n THEN "loop" ELSE "panic"
    /\ UNCHANGED <<gameState, players_n, rAccepted, player_i, rTarget, rCopy, rGstate,
                   rCombined, rRead, rRejected, rAnswer, rNewRound>>
    /\ UNCHANGED <<solverVars, moveVars, pipeVars, valVars>>
    /\ UNCHANGED unitVars

MenuNext == OptShutTheBoxProcess \/ RunFirstPrint \/ RunNext

SpecMenu == MenuInit /\ [][MenuNext]_vars

(***************************************************************************)
(* Validation specification: ValidateAndExecute on a CoinFlip or a         *)
(* DiceRoll with any event count and any number of sides.  Entry           *)
(* specification: GenerateProbabilisticEvent called directly, as           *)
(* TestNegGenProbEvent calls it.  Both run the pipeline above.             *)
(***************************************************************************)

\* the parts of the state that are the same before either call
CallIdle ==
    /\ UnitIdle
    /\ SolverIdle
    /\ BoxIdle
    /\ RunIdle
    /\ PipeIdle
    /\ vErr = ErrNil
    /\ vDisplayed = FALSE

\* coinflip.go NewCoinFlip, diceroll.go:85-90 NewDiceRoll  the event type
\* handed to ValidateAndExecute
ValidateInit ==
    /\ CallIdle
    /\ vPc = "validate"
    /\ vKind \in {"CoinFlip", "DiceRoll"}
    /\ vEvents \in EventCounts
    /\ numSides \in IF vKind = "DiceRoll" THEN 0..MaxSides ELSE {0}
    /\ vPossibilities = <<>>

\* part_005:188-200  GenerateProbabilisticEvent(events, possibilities)
GenerateInit ==
    /\ CallIdle
    /\ vPc = "generate"
    /\ vKind = "direct"
    /\ vEvents \in EventCounts
    /\ numSides = 0
    /\ vPossibilities \in OutcomeLists \cup {<<>>}

\* probgen.go:134-148  the generic validation, then the validation of the
\* event type, then execute(), which calls GenerateProbabilisticEvent
ValidateAndExecute ==
    /\ vPc = "validate"
    /\ IF ~validate(vEvents).ok
       THEN /\ vErr' = validate(vEvents).err
            /\ vPc' = "returned"
            /\ UNCHANGED vPossibilities
       ELSE IF ~typeValidate(vKind, numSides).ok
       THEN /\ vErr' = typeValidate(vKind, numSides).err
            /\ vPc' = "returned"
            /\ UNCHANGED vPossibilities
       ELSE /\ vPossibilities' = typePossibilities(vKind, numSides)
            /\ vPc' = "generate"
            /\ UNCHANGED vErr
    /\ UNCHANGED <<vKind, vEvents, numSides, vDisplayed>>
    /\ UNCHANGED <<solverVars, boxVars, pipeVars, runVars>>
    /\ UNCHANGED unitVars

\* probgen.go:116-123, 75-80  GenerateProbabilisticEvent: without a possible
\* outcome it returns the error; else it builds the ProbEvent and
\* computeProbability makes the channel and starts the producer
GenerateProbabilisticEvent ==
    /\ vPc = "generate"
    /\ IF Len(vPossibilities) < 1
       THEN /\ vErr' = ErrInvalidPossibilities
            /\ vPc' = "returned"
            /\ UNCHANGED <<numEvents, outcomes, pPc, cPc>>
       ELSE /\ numEvents' = vEvents
            /\ outcomes' = vPossibilities
            /\ pPc' = "loop"
            /\ cPc' = "recv"
            /\ vPc' = "computing"
            /\ UNCHANGED vErr
    /\ UNCHANGED <<prng, hardcoded_rng_nums, hardcoded_rng_num_i, pI, pPending, chanBuf,
                   chanClosed, closeCount, cEvent, results, retTable, drawn, received>>
    /\ UNCHANGED <<vKind, vEvents, numSides, vPossibilities, vDisplayed>>
    /\ UNCHANGED <<solverVars, boxVars, runVars>>
    /\ UNCHANGED unitVars

\* probgen.go:123, diceroll.go:106-110, coinflip.go:63-67  the table comes
\* back with a nil error; execute() displays it
ReturnTable ==
    /\ vPc = "computing"
    /\ cPc = "returned"
    /\ vPc' = "returned"
    /\ vErr' = ErrNil
    /\ vDisplayed' = (vKind # "direct")
    /\ UNCHANGED <<vKind, vEvents, numSides, vPossibilities>>
    /\ UNCHANGED <<solverVars, boxVars, pipeVars, runVars>>
    /\ UNCHANGED unitVars

ValidateNext == ValidateAndExecute \/ GenerateProbabilisticEvent \/ PipeNext \/ ReturnTable

SpecValidate == ValidateInit /\ [][ValidateNext]_vars

GenerateNext == GenerateProbabilisticEvent \/ PipeNext \/ ReturnTable

SpecGenerate == GenerateInit /\ [][GenerateNext]_vars

(***************************************************************************)
(* Dice type specification: DiceRoll.validate() called on a DiceRoll with  *)
(* any number of sides, negative ones included, as TestDiceRollValidate    *)
(* calls it.                                                               *)
(***************************************************************************)

\* probgen_test.go:237, diceroll.go:85-90  diceRoll := NewDiceRoll(nEvents, nSides)
DiceInit ==
    /\ CallIdle
    /\ vPc = "dice"
    /\ vKind = "DiceRoll"
    /\ vEvents \in EventCounts
    /\ numSides \in (0 - MaxSides)..MaxSides
    /\ vPossibilities = <<>>

\* probgen_test.go:238, diceroll.go:92-99  ok, err := diceRoll.validate()
DiceRollValidate ==
    /\ vPc = "dice"
    /\ vErr' = typeValidate(vKind, numSides).err
    /\ vPc' = "validated"
    /\ UNCHANGED <<vKind, vEvents, numSides, vPossibilities, vDisplayed>>
    /\ UNCHANGED <<solverVars, boxVars, pipeVars, runVars>>
    /\ UNCHANGED unitVars

DiceNext == DiceRollValidate

SpecDice == DiceInit /\ [][DiceNext]_vars

(***************************************************************************)
(* Turn specification: a ShutTheBox object with any player list, driven    *)
(* through nextPlayer, nextTurn and updateGameState as TestNextTurn drives *)
(* it.  The advances of player_i are counted up to one full cycle.         *)
(***************************************************************************)

\* part_007:453, shutthebox.go:48-54  stb := NewShutBox(players)
TurnInit ==
    /\ SolverIdle
    /\ PipeIdle
    /\ ValIdle
    /\ uPc = "idle"
    /\ uPrev = OpenBox
    /\ uMove = <<>>
    /\ uWhole = FALSE
    /\ uTarget = 0
    /\ uGstate = OpenBox
    /\ uCombined = 0
    /\ uOut = [gstate |-> OpenBox, err |-> ErrNil]
    /\ gameState = OpenBox
    /\ players_n \in 1..MaxSeats
    /\ player_i = 0
    /\ rPc = "off"
    /\ rTarget = 0
    /\ rCopy = 0
    /\ rGstate = 0
    /\ rCombined = 0
    /\ rRead = 0
    /\ rRejected = FALSE
    /\ rAnswer = ""
    /\ rNewRound = FALSE
    /\ rAccepted = 0
    /\ tPc = "test"
    /\ tStart = 0
    /\ tCount = 0
    /\ dPc = "off"
    /\ dGstate = 0
    /\ dDisplay = <<>>
    /\ dBack = 0

\* the frame of a step of the turn test
TurnFrame ==
    /\ UNCHANGED <<players_n, rAccepted, rPc, rTarget, rCopy, rGstate, rCombined, rRead, rRejected,
                   rAnswer, rNewRound>>
    /\ UNCHANGED <<tPc, dPc, dGstate, dDisplay, dBack>>
    /\ UNCHANGED <<solverVars, moveVars, pipeVars, valVars>>

\* part_007:462, shutthebox.go:57-59  stb.nextPlayer()
TurnNextPlayer ==
    /\ tPc = "test"
    /\ tCount < players_n
    /\ player_i' = nextPlayer(player_i, players_n)
    /\ tCount' = tCount + 1
    /\ UNCHANGED <<gameState, tStart>>
    /\ TurnFrame

\* part_007:516, shutthebox.go:67-70  stb.nextTurn()
TurnNextTurn ==
    /\ tPc = "test"
    /\ tCount < players_n
    /\ gameState' = resetBox
    /\ player_i' = nextPlayer(player_i, players_n)
    /\ tCount' = tCount + 1
    /\ UNCHANGED tStart
    /\ TurnFrame

\* part_007:492, 525, shutthebox.go:136-143  stb.updateGameState(update, target)
TurnUpdate ==
    /\ tPc = "test"
    /\ \E m \in TestMoves :
        LET r == processProposedUpdate(gameState, m.update, m.target)
        IN  gameState' = updateGameState(gameState, r.gstate, r.err)
    /\ UNCHANGED <<player_i, tStart, tCount>>
    /\ TurnFrame

\* the count of advances starts again from the current player
TurnCountAgain ==
    /\ tPc = "test"
    /\ tCount > 0
    /\ tStart' = player_i
    /\ tCount' = 0
    /\ UNCHANGED <<gameState, player_i>>
    /\ TurnFrame

TurnNext == TurnNextPlayer \/ TurnNextTurn \/ TurnUpdate \/ TurnCountAgain

SpecTurn == TurnInit /\ [][TurnNext]_vars

(***************************************************************************)
(* Display specification: any 9 bit game state is displayed with           *)
(* AssembleSlotsToDisplay and the display converted back with              *)
(* ConvertSlotsToGameState.                                                *)
(***************************************************************************)

DisplayInit ==
    /\ SolverIdle
    /\ BoxIdle
    /\ PipeIdle
    /\ RunIdle
    /\ ValIdle
    /\ tPc = "off"
    /\ tStart = 0
    /\ tCount = 0
    /\ dPc = "ready"
    /\ dGstate \in Bitsets
    /\ dDisplay = <<>>
    /\ dBack = 0

\* shutthebox.go:312-319  AssembleSlotsToDisplay(gstate)
DisplayAssemble ==
    /\ dPc = "ready"
    /\ dDisplay' = AssembleSlotsToDisplay(dGstate)
    /\ dPc' = "shown"
    /\ UNCHANGED <<dGstate, dBack, tPc, tStart, tCount>>
    /\ UNCHANGED <<solverVars, boxVars, pipeVars, runVars, valVars>>

\* shutthebox.go:329-337  ConvertSlotsToGameState(gslots)
DisplayConvert ==
    /\ dPc = "shown"
    /\ dBack' = ConvertSlotsToGameState(dDisplay)
    /\ dPc' = "converted"
    /\ UNCHANGED <<dGstate, dDisplay, tPc, tStart, tCount>>
    /\ UNCHANGED <<solverVars, boxVars, pipeVars, runVars, valVars>>

DisplayNext == DisplayAssemble \/ DisplayConvert

SpecDisplay == DisplayInit /\ [][DisplayNext]_vars

(***************************************************************************)
(* Solver claims                                                           *)
(***************************************************************************)

\* the slot indices open in a bitset
OpenSlots(bitset) == { i \in 0..(SizeBox - 1) : IsBitSet(bitset, i) }

RECURSIVE SumSlotValues(_)
\* the sum of the slot values of a set of slot indices
SumSlotValues(S) ==
    IF S = {} THEN 0
    ELSE LET i == CHOOSE x \in S : TRUE
         IN  GetSlotValue(i) + SumSlotValues(S \ {i})

\* some non-empty set of open slots, each used once, sums to the target
SubsetSumExists(bitset, target) ==
    \E S \in SUBSET OpenSlots(bitset) : S # {} /\ SumSlotValues(S) = target

\* the slots the call cleared in the caller's integer
ClearedByCall == OpenSlots(sIn) \ OpenSlots(sBitset)

\* C1: for every 9 bit bitset and every target in [2,12], TargetSumExists
\* returns true if and only if some subset of the open slot values, each
\* slot used at most once, sums exactly to the target.
C1_ExistsIffSubsetSum ==
    sPc = "done" => (sRes <=> SubsetSumExists(sIn, sTarget))

\* C1 witness: a true answer for a target that no single open slot satisfies
\* on a board whose slot 1 is closed, so the first split (1, target - 1) failed
\* and a later split found the subset.
C1_Witness ==
    /\ sPc = "done"
    /\ sRes
    /\ ~IsBitSet(sIn, GetValueSlot(sTarget))
    /\ ~IsBitSet(sIn, 0)

\* C2: whenever TargetSumExists returns false, the caller's bitset equals
\* its value at the start of the call.
C2_FalseLeavesBitset ==
    (sPc = "done" /\ ~sRes) => sBitset = sIn

\* C3: whenever TargetSumExists returns true, the bits cleared in the
\* caller's bitset are exactly the slots of one subset of the originally
\* open slots whose values sum to the target, every other bit unchanged.
C3_TrueClearsWitness ==
    (sPc = "done" /\ sRes) =>
        /\ OpenSlots(sBitset) \subseteq OpenSlots(sIn)
        /\ sBitset \in Bitsets
        /\ SumSlotValues(ClearedByCall) = sTarget

(***************************************************************************)
(* Move claims.  uMove holds the characters processProposedUpdate has read *)
(* when it returns: the whole move (uWhole) or, when it returned at an     *)
(* offending character, the move up to and including that character.       *)
(***************************************************************************)

\* the characters that name a slot
SlotChars == { c \in DOMAIN DigitValue : DigitValue[c] \in 1..SizeBox }

\* the slot indices named by characters that name a slot
NamedSlots(update) ==
    { GetValueSlot(DigitValue[update[k]]) :
        k \in { j \in 1..Len(update) : update[j] \in SlotChars } }

RECURSIVE DigitSum(_, _)
\* the sum of the digits of a move of digit characters, from position k on
DigitSum(update, k) ==
    IF k > Len(update) THEN 0 ELSE DigitValue[update[k]] + DigitSum(update, k + 1)

\* every character is a digit 1..9, every named slot is open on the board
\* and no slot is named twice
WellFormed(board, update) ==
    /\ \A k \in 1..Len(update) : update[k] \in SlotChars
    /\ NamedSlots(update) \subseteq OpenSlots(board)
    /\ \A j, k \in 1..Len(update) : j # k => update[j] # update[k]

\* the move is non-empty, well formed, and its digits sum to the target
AcceptableMove(board, update, target) ==
    /\ update # <<>>
    /\ WellFormed(board, update)
    /\ DigitSum(update, 1) = target

\* C4: updateGameState with a move that fails for any reason leaves the
\* game state exactly as it was before the call.
C4_FailedUpdateIsNoOp ==
    (uPc = "called" /\ uOut.err # ErrNil) => gameState = uPrev

\* C4 witness: a two character move rejected at its second character (the
\* slot is closed on a board that is no longer fully open), after the first
\* character was applied to the working copy.
C4_Witness ==
    /\ uPc = "called"
    /\ Len(uMove) = 2
    /\ uPrev # OpenBox
    /\ uMove[1] # uMove[2]
    /\ uMove[2] \in SlotChars
    /\ uOut.err = ErrSlotClosed(DigitValue[uMove[2]])
    /\ uGstate # uPrev
    /\ gameState = uPrev

\* C5: processProposedUpdate succeeds exactly when the move is acceptable
\* (non-empty, digits 1..9 only, named slots open, none named twice, digits
\* summing to the target); on success the returned board is the input board
\* with exactly the named slots cleared.  A call that returned before the
\* end of the move did so on a prefix that is not well formed, so no move
\* with that prefix is acceptable.
C5_SucceedsIffAcceptable ==
    uPc = "called" =>
        /\ (uOut.err = ErrNil) <=> (uWhole /\ AcceptableMove(uPrev, uMove, uTarget))
        /\ ~uWhole => ~WellFormed(uPrev, uMove)
        /\ (uOut.err = ErrNil) =>
              /\ uOut.gstate \in Bitsets
              /\ OpenSlots(uOut.gstate) = OpenSlots(uPrev) \ NamedSlots(uMove)

\* C5 witness: a two slot move accepted on a board that already has closed
\* slots.
C5_Witness ==
    /\ uPc = "called"
    /\ uOut.err = ErrNil
    /\ Len(uMove) = 2
    /\ uPrev # OpenBox
    /\ uOut.gstate # uPrev

(***************************************************************************)
(* Pipeline claims                                                         *)
(***************************************************************************)

RECURSIVE SumTable(_)
\* the sum of all values of a table
SumTable(table) ==
    IF DOMAIN table = {} THEN 0
    ELSE LET k == CHOOSE x \in DOMAIN table : TRUE
         IN  table[k] + SumTable([j \in DOMAIN table \ {k} |-> table[j]])

\* C6: for every eventCount >= 0, every non-empty outcome list and every
\* interleaving, the values of the table computeProbability returns sum to
\* exactly eventCount.
C6_TableSumsToEventCount ==
    cPc = "returned" => SumTable(retTable) = numEvents

\* C6 witness: a returned table of a run of at least two events with two
\* different labels observed.
C6_Witness ==
    /\ cPc = "returned"
    /\ numEvents >= 2
    /\ Cardinality(DOMAIN retTable) = 2

\* the channel is closed at most once, only after exactly eventCount items
\* were drawn and handed off, nothing is in flight or sent once it is
\* closed, and the consumer has not stopped while it is open
CloseDiscipline ==
    /\ closeCount <= 1
    /\ chanClosed <=> closeCount = 1
    /\ chanClosed =>
          /\ pPc = "done"
          /\ chanBuf = <<>>
          /\ Len(drawn) = numEvents
          /\ Len(received) = numEvents
    /\ ~chanClosed => cPc # "returned"
    /\ cPc = "returned" => closeCount = 1

\* C7: in every run the producer closes the channel exactly once, after
\* exactly eventCount items have been handed off and never before; nothing
\* is sent after the close, and the consumer stops exactly when it observes
\* the close.
C7_CloseOnceAfterAllItems ==
    /\ []CloseDiscipline
    /\ <>(closeCount = 1)
    /\ (chanClosed ~> cPc = "returned")

\* C7 witness: the channel is closed after a run of MaxEvents items and the
\* consumer has stopped.
C7_Witness ==
    /\ chanClosed
    /\ numEvents = MaxEvents
    /\ Len(received) = MaxEvents
    /\ cPc = "returned"

\* C8: at every point the number of events produced exceeds the number the
\* consumer has received by at most one.
C8_AtMostOneInFlight ==
    /\ Len(received) <= Len(drawn)
    /\ Len(drawn) <= Len(received) + 1
    /\ (pPc = "loop" \/ pPc = "done") => Len(drawn) = Len(received)

\* C8 witness: the producer is blocked in the send of its second event while
\* the consumer still aggregates the first.
C8_Witness ==
    /\ pPc = "send"
    /\ cPc = "agg"
    /\ Len(drawn) = 2
    /\ Len(received) = 1

\* C9: the i-th event the consumer receives is the outcome the i-th call of
\* the random source selected.
C9_ConsumedInProducedOrder ==
    /\ Len(received) <= Len(drawn)
    /\ \A i \in 1..Len(received) : received[i] = outcomes[drawn[i] + 1]

\* C9 witness: two different events received, in the order they were drawn.
C9_Witness ==
    /\ Len(received) >= 2
    /\ received[1] # received[2]
    /\ drawn[1] # drawn[2]

\* C10: computeProbability hands the table over only after the producer
\* closed the channel and all eventCount draws are aggregated; the table
\* is written only by the consumer's aggregation step, and never after it
\* has been returned.
C10_TableHandedOverComplete ==
    [][ /\ cPc' = "returned" =>
              /\ chanClosed' /\ pPc' = "done"
              /\ Len(received') = numEvents
              /\ SumTable(results') = numEvents
              /\ retTable' = results'
        /\ results' # results => (cPc = "agg" /\ cPc' = "recv")
        /\ cPc = "returned" => (results' = results /\ retTable' = retTable)
      ]_vars

\* C10 witness: the table has been handed over after MaxEvents aggregated draws.
C10_Witness ==
    /\ cPc = "returned"
    /\ numEvents = MaxEvents
    /\ SumTable(retTable) = MaxEvents
    /\ pPc = "done"

\* the count a table holds for a label; a label never received has none
TableCount(table, label) == IF label \in DOMAIN table THEN table[label] ELSE 0

\* the positions of the replayed sequence, among the first numEvents, whose
\* number reduced modulo len(outcomes) is k (k counted from 0)
ReplayedAs(k) ==
    { i \in 1..numEvents : hardcoded_rng_nums[i] % Len(outcomes) = k }

\* whether no label occurs twice in the outcome list
DistinctLabels == \A j, k \in 1..Len(outcomes) : outcomes[j] = outcomes[k] => j = k

\* C11: with the replaying random source, whatever the interleaving of
\* producer and consumer, the table computeProbability returns gives a label
\* the number of replayed positions that select it; with an outcome list of
\* distinct labels that is, for outcomes[k], the number of i < numEvents with
\* seq[i] mod len(outcomes) = k.
C11_ReplayCountsPerLabel ==
    (cPc = "returned" /\ prng = "PRNG_for_testing") =>
        /\ \A label \in Labels :
              TableCount(retTable, label) =
                  Cardinality({ i \in 1..numEvents :
                      outcomes[(hardcoded_rng_nums[i] % Len(outcomes)) + 1] = label })
        /\ DistinctLabels =>
              \A k \in 1..Len(outcomes) :
                  TableCount(retTable, outcomes[k]) = Cardinality(ReplayedAs(k - 1))

\* a run of two or more replayed draws over two distinct labels has returned,
\* a replayed number was reduced, and both labels were counted
C11_Witness ==
    /\ cPc = "returned"
    /\ prng = "PRNG_for_testing"
    /\ numEvents >= 2
    /\ Len(outcomes) = 2
    /\ DistinctLabels
    /\ \E i \in 1..numEvents : hardcoded_rng_nums[i] >= Len(outcomes)
    /\ hardcoded_rng_nums[1] # hardcoded_rng_nums[2]
    /\ ReplayedAs(0) # {}
    /\ ReplayedAs(1) # {}

(***************************************************************************)
(* Game claims                                                             *)
(***************************************************************************)

\* C12: in the game loop, when the rolled target has no solution among the
\* open slots the player is not prompted: the check is followed by the lost
\* round, and the lost round leaves the board fully open and the current
\* player index advanced by one modulo the number of players, at the head of
\* the loop; the prompt is reached only with a target that has a solution.
C12_LostRound ==
    [][ /\ (rPc = "rolled" /\ ~SubsetSumExists(gameState, rTarget)) => rPc' = "lost"
        /\ rPc' = "prompt" => SubsetSumExists(gameState', rTarget')
        /\ rPc = "lost" =>
              /\ ~SubsetSumExists(gameState, rTarget)
              /\ gameState' = OpenBox
              /\ player_i' = (player_i + 1) % players_n
              /\ rPc' = "loop" ]_vars

\* a lost round has passed the turn to the second player with the box open
\* again
C12_Witness ==
    /\ rPc = "loop"
    /\ rNewRound
    /\ rAnswer = ""
    /\ players_n = 2
    /\ player_i = 1
    /\ gameState = OpenBox

\* C13: a win is declared exactly when all nine slots are closed: the winner
\* is only ever declared on a shut box, and a shut box at the head of the
\* loop is followed by the declaration.  The box only becomes shut by an
\* accepted move.  After a win the answer "y" opens the box fully and
\* advances to the next player, and the answer "n" ends the game.
C13_WinDeclaredOnShutBox ==
    /\ [](rPc = "won" => gameState = ShutBox)
    /\ [][ /\ (rPc = "loop" /\ gameState = ShutBox) => rPc' = "won"
           /\ (rPc' = "won" /\ rPc # "won") => (rPc = "loop" /\ gameState = ShutBox)
           /\ (gameState' = ShutBox /\ gameState # ShutBox) =>
                 (rPc = "scan" /\ rPc' = "loop" /\ ~rRejected')
           /\ (rPc = "won" /\ rAnswer' = "y") =>
                 /\ gameState' = OpenBox
                 /\ player_i' = (player_i + 1) % players_n
                 /\ rPc' = "loop"
           /\ (rPc = "won" /\ rAnswer' = "n") =>
                 /\ rPc' = "end"
                 /\ gameState' = gameState
                 /\ player_i' = player_i ]_vars

\* the first of two players shut the box, answered "y", and the second player
\* is at the head of the loop with the box open
C13_Witness ==
    /\ rPc = "loop"
    /\ rAnswer = "y"
    /\ players_n = 2
    /\ player_i = 1
    /\ gameState = OpenBox
    /\ rNewRound

\* a step of the game that ends a round: nextTurn after a lost round, or after
\* a win that the player continues
RoundBoundary ==
    \/ rPc = "lost" /\ ~SubsetSumExists(gameState, rTarget)
    \/ rPc = "won" /\ gameState = ShutBox /\ rAnswer' = "y"

\* C14: the current player index changes only in a step that ends a round (a
\* lost round, or a win followed by continuing); rolling, the solvability
\* check, a rejected move and an accepted move all leave it unchanged.
C14_PlayerChangesAtRoundBoundary ==
    [][ /\ player_i' # player_i => RoundBoundary
        /\ rPc \in {"loop", "rolled", "prompt", "scan"} => player_i' = player_i
        /\ players_n' = players_n ]_vars

\* the second player, whose turn came at a round boundary, has made an
\* accepted move that left slots open, rolled again and made a rejected move
C14_Witness ==
    /\ rPc = "prompt"
    /\ rRejected
    /\ players_n = 2
    /\ player_i = 1
    /\ gameState # OpenBox

\* NewShutBox has returned and no dice have been rolled: the board is open
GameStartsOpen == gameState = OpenBox /\ rNewRound = TRUE

\* C15: the board is fully open at game start, and every step that starts a
\* new round (after a loss, and after a win when the player continues) leaves
\* it fully open; it is still fully open when the first dice of the round are
\* rolled.
C15_NewRoundStartsOpen ==
    /\ GameStartsOpen
    /\ [](rNewRound => (rPc = "loop" /\ gameState = OpenBox))
    /\ [][ /\ (rPc = "lost" \/ (rPc = "won" /\ rPc' = "loop")) =>
                 (rNewRound' /\ gameState' = OpenBox)
           /\ (rNewRound /\ ~rNewRound') =>
                 (rPc' = "rolled" /\ gameState = OpenBox /\ gameState' = OpenBox) ]_vars

\* the first dice of the round of the second player have been rolled on the
\* open box
C15_Witness ==
    /\ rPc = "rolled"
    /\ gameState = OpenBox
    /\ players_n = 2
    /\ player_i = 1
    /\ ~rNewRound

\* C16: the solvability check of a turn never changes the board of the game:
\* gameState is the same after checkSolutionExists as before it, whether the
\* check answers true (the prompt follows) or false (the lost round follows),
\* whatever the solver did to the copy it was given.
C16_CheckLeavesBoard ==
    [][ rPc = "rolled" =>
            /\ rPc' \in {"prompt", "lost"}
            /\ gameState' = gameState ]_vars

\* the check has answered false and the solver left bits cleared in its copy,
\* which differs from the board
C16_Witness ==
    /\ rPc = "lost"
    /\ rCopy # gameState
    /\ gameState # OpenBox

\* C17: a rejected move leaves the game at the move prompt of the same turn,
\* with the same target, the same current player and the same board; from
\* there the player can only type again (or quit with the empty line); dice
\* are rolled only at the head of the loop, which a move reaches only when it
\* was accepted.
C17_RejectedMoveReprompts ==
    [][ /\ (rPc = "scan" /\ rRejected') =>
              /\ rPc' = "prompt"
              /\ rTarget' = rTarget
              /\ player_i' = player_i
              /\ gameState' = gameState
        /\ (rPc = "prompt" /\ rRejected) =>
              /\ rPc' \in {"scan", "end"}
              /\ rTarget' = rTarget
              /\ player_i' = player_i
              /\ gameState' = gameState
        /\ (rPc' = "rolled" /\ rPc # "rolled") => rPc = "loop"
        /\ (rPc = "scan" /\ rPc' = "loop") => ~rRejected' ]_vars

\* the first player's move for the target 12 on the open box was rejected and
\* the prompt has come again
C17_Witness ==
    /\ rPc = "prompt"
    /\ rRejected
    /\ rTarget = 12
    /\ player_i = 0
    /\ gameState = OpenBox

(***************************************************************************)
(* Validation claims                                                       *)
(***************************************************************************)

\* whether ValidateAndExecute got as far as execute(): the general entry
\* point was called, the pipeline ran or the table was displayed
ExecutionStarted ==
    \/ vPc \in {"generate", "computing"}
    \/ pPc # "off"
    \/ cPc # "off"
    \/ vDisplayed

\* C18: ValidateAndExecute stops at the first failed validation: an event
\* count below 1 gives the invalid-event-count error whatever the dice type;
\* otherwise a dice type outside {4, 6, 10, 12, 20} gives the
\* invalid-dice-type error; in both cases nothing is executed.  Execution
\* starts only with an event count of 1 or more and, for a DiceRoll, a dice
\* type in {4, 6, 10, 12, 20}.
C18_TwoPhaseValidation ==
    (vKind \in {"CoinFlip", "DiceRoll"} /\ vPc \notin {"off", "validate"}) =>
        /\ vEvents < 1 =>
              (vPc = "returned" /\ vErr = ErrInvalidEvents /\ ~ExecutionStarted)
        /\ (vEvents >= 1 /\ vKind = "DiceRoll" /\ numSides \notin {4, 6, 10, 12, 20}) =>
              (vPc = "returned" /\ vErr = ErrInvalidDiceType /\ ~ExecutionStarted)
        /\ ExecutionStarted =>
              /\ vEvents >= 1
              /\ vKind = "DiceRoll" => numSides \in {4, 6, 10, 12, 20}
        /\ (vPc = "returned" /\ ~ExecutionStarted) => vErr # ErrNil

\* a DiceRoll with no events and an invalid dice type has been turned down
\* for its event count
C18_Witness ==
    /\ vPc = "returned"
    /\ vKind = "DiceRoll"
    /\ vEvents = 0
    /\ numSides = 5
    /\ vErr = ErrInvalidEvents
    /\ ~ExecutionStarted

\* C19: GenerateProbabilisticEvent called with events < 0 returns the
\* invalid-event-count error and no table, also when the outcome list is
\* empty.
C19_NegativeCountRejected ==
    (vKind = "direct" /\ vPc \notin {"off", "generate"} /\ vEvents < 0) =>
        /\ vPc = "returned"
        /\ vErr = ErrInvalidEvents
        /\ cPc = "off"

(***************************************************************************)
(* Closed and repeated slots in a move                                     *)
(***************************************************************************)

\* the positions of a move whose character names a slot that is closed on
\* the board or that an earlier character of the move has named
ClosedOrRepeated(board, update) ==
    { k \in 1..Len(update) :
        /\ update[k] \in SlotChars
        /\ \/ GetValueSlot(DigitValue[update[k]]) \notin OpenSlots(board)
           \/ \E j \in 1..(k - 1) : update[j] = update[k] }

\* the characters a move can go on with after the ones that were read
Rests ==
    IF uWhole THEN {<<>>}
    ELSE UNION { [1..n -> Chars] : n \in 0..(MaxMoveLen - Len(uMove)) }

\* C20 as stated: every move that names a closed slot, or a slot twice, is
\* rejected with the slot-already-closed error naming such a slot.
C20_ClosedSlotAlwaysNamed ==
    uPc = "called" =>
        \A rest \in Rests :
            LET update == uMove \o rest
            IN  ClosedOrRepeated(uPrev, update) # {} =>
                    \E k \in ClosedOrRepeated(uPrev, update) :
                        uOut.err = ErrSlotClosed(DigitValue[update[k]])

\* C20: a move whose first offending character names a slot that is closed
\* on the board, or a slot the move has named before, is rejected at that
\* character with the slot-already-closed error naming that slot, whatever
\* the digits sum to, and the board is left as it was; while the loop runs,
\* the characters read so far are well formed.
C20_FirstClosedSlotNamed ==
    /\ uPc = "scan" => WellFormed(uPrev, uMove)
    /\ uPc = "called" =>
          \A k \in ClosedOrRepeated(uPrev, uMove) :
              WellFormed(uPrev, SubSeq(uMove, 1, k - 1)) =>
                  /\ k = Len(uMove)
                  /\ ~uWhole
                  /\ uOut.err = ErrSlotClosed(DigitValue[uMove[k]])
                  /\ gameState = uPrev

\* the move "22" for the target 4 was rejected at its second character with
\* the slot-already-closed error naming slot 2
C20_Witness ==
    /\ uPc = "called"
    /\ uMove = <<"2", "2">>
    /\ uTarget = 4
    /\ uPrev = OpenBox
    /\ uOut.err = ErrSlotClosed(2)
    /\ gameState = uPrev

(***************************************************************************)
(* Invalid characters and wrong sums in a move                             *)
(***************************************************************************)

\* the positions of a move whose character is not one of the digits 1..9
InvalidPositions(update) == { k \in 1..Len(update) : update[k] \notin SlotChars }

\* C21 as stated: the empty move, and every move that contains a character
\* that is not one of the digits 1..9, is rejected with ErrInvDigit.
C21_InvalidCharAlwaysInvDigit ==
    uPc = "called" =>
        \A rest \in Rests :
            LET update == uMove \o rest
            IN  (update = <<>> \/ InvalidPositions(update) # {}) => uOut.err = ErrInvDigit

\* C21: the empty move is rejected with ErrInvDigit, and so is every move
\* whose first offending character is not one of the digits 1..9 ('0', '-'
\* and letters included): processProposedUpdate returns at that character
\* and the board is left as it was.
C21_FirstInvalidCharInvDigit ==
    uPc = "called" =>
        /\ uMove = <<>> => (uWhole /\ uOut.err = ErrInvDigit /\ gameState = uPrev)
        /\ \A k \in InvalidPositions(uMove) :
              WellFormed(uPrev, SubSeq(uMove, 1, k - 1)) =>
                  /\ k = Len(uMove)
                  /\ ~uWhole
                  /\ uOut.err = ErrInvDigit
                  /\ gameState = uPrev

\* the move "10" was rejected at its second character, after the first one
\* had been applied to the working copy
C21_Witness ==
    /\ uPc = "called"
    /\ uMove = <<"1", "0">>
    /\ uPrev = OpenBox
    /\ uOut.err = ErrInvDigit
    /\ uGstate # uPrev
    /\ gameState = uPrev

\* C22: a move whose characters are all digits 1..9 naming distinct open
\* slots, but whose digits do not sum to the target, is rejected with
\* ErrNotEqTarget carrying the sum of all its digits and the target, and the
\* board is left as it was.
C22_WrongSumReported ==
    (/\ uPc = "called"
     /\ uWhole
     /\ uMove # <<>>
     /\ WellFormed(uPrev, uMove)
     /\ DigitSum(uMove, 1) # uTarget) =>
        /\ uOut.err = <<"ErrNotEqTarget", DigitSum(uMove, 1), uTarget>>
        /\ uOut.gstate = -1
        /\ gameState = uPrev

\* the move "12" for the target 8 on a board with closed slots was rejected
\* with the sum 3 and the target 8
C22_Witness ==
    /\ uPc = "called"
    /\ uWhole
    /\ uMove = <<"1", "2">>
    /\ uTarget = 8
    /\ uPrev # OpenBox
    /\ uOut.err = <<"ErrNotEqTarget", 3, 8>>
    /\ gameState = uPrev

(***************************************************************************)
(* Turn and display claims                                                 *)
(***************************************************************************)

\* C23: for a player list of length n >= 1 the current player index is
\* always in [0, n); each advance moves it by exactly one modulo n, so after
\* tCount advances it is (tStart + tCount) mod n; and n successive advances
\* bring it back to the index they started from.
C23_PlayerIndexCycles ==
    tPc = "test" =>
        /\ player_i \in 0..(players_n - 1)
        /\ player_i = (tStart + tCount) % players_n
        /\ tCount = players_n => player_i = tStart

\* four advances in a list of four players, counted from the player at index
\* 2, have wrapped around and returned to index 2
C23_Witness ==
    /\ tPc = "test"
    /\ players_n = 4
    /\ tStart = 2
    /\ tCount = 4
    /\ player_i = 2

\* the three characters the display shows for slot i
ShownSlot(display, i) == SubSeq(display, 3 * i + 1, 3 * i + 3)

\* C24: for every bitset s in [0, 511] the display of s is 9 slots of three
\* characters, slot i showing the value i + 1 when bit i is set and '_' when
\* it is clear, and converting the display back gives s.
C24_DisplayRoundTrip ==
    /\ dPc \in {"shown", "converted"} =>
          /\ Len(dDisplay) = 3 * SizeBox
          /\ \A i \in 0..(SizeBox - 1) :
                ShownSlot(dDisplay, i) =
                    IF (dGstate \div (2 ^ i)) % 2 = 1
                    THEN <<"[", Itoa(i + 1), "]">>
                    ELSE <<"[", "_", "]">>
    /\ dPc = "converted" => dBack = dGstate

\* the game state 32 was displayed as "[_][_][_][_][_][6][_][_][_]" and
\* converted back to 32
C24_Witness ==
    /\ dPc = "converted"
    /\ dGstate = 32
    /\ ShownSlot(dDisplay, 5) = <<"[", "6", "]">>
    /\ ShownSlot(dDisplay, 0) = <<"[", "_", "]">>
    /\ dBack = 32

(***************************************************************************)
(* Solver claims, continued                                                *)
(***************************************************************************)

\* C25: on the fully open board TargetSumExists returns true for every
\* target in [2,12].
C25_OpenBoardAlwaysSolvable ==
    (sPc = "done" /\ sIn = OpenBox) => sRes = TRUE

\* the fully open board answered true for 12, which no single slot satisfies
C25_Witness ==
    /\ sPc = "done"
    /\ sIn = OpenBox
    /\ sTarget = 12
    /\ sRes = TRUE

\* C27: inside one call of TargetSumExists every (low, high) attempt starts
\* from the bitset the call was entered with.
C27_AttemptsStartFromEntry ==
    sPc = "done" =>
        \A k \in DOMAIN AttemptStarts(sIn, sTarget) :
            AttemptStarts(sIn, sTarget)[k] = sIn

(***************************************************************************)
(* Dice type claims                                                        *)
(***************************************************************************)

\* C26: validDiceType(n) is true if and only if n is one of 4, 6, 10, 12, 20,
\* for every integer n including 0 and the negative ones: DiceRoll.validate()
\* returns without an error exactly for these numbers of sides and with
\* ErrInvalidDiceType for every other.
C26_ValidDiceTypes ==
    vPc = "validated" =>
        /\ (vErr = ErrNil) <=> (numSides \in {4, 6, 10, 12, 20})
        /\ (vErr # ErrNil) => vErr = <<"ErrInvalidDiceType">>

\* a DiceRoll with -4 sides was refused
C26_Witness ==
    /\ vPc = "validated"
    /\ numSides = 0 - 4
    /\ vErr = <<"ErrInvalidDiceType">>

(***************************************************************************)
(* Game claims, continued                                                  *)
(***************************************************************************)

\* whether the characters read so far, which left the working copy gstate
\* and the sum combinedDigits, can be completed to a move that
\* processProposedUpdate accepts: the move ends here and the sum is the
\* target, or a further character is read without an error.  Every digit
\* adds at least 1, so a sum above the target cannot be completed.
RECURSIVE AcceptedAfter(_, _, _)
AcceptedAfter(gstate, combinedDigits, target) ==
    \/ VerifyTarget(gstate, combinedDigits, target).err = ErrNil
    \/ \E d \in Chars :
        LET r == ProcessDigit(gstate, combinedDigits, d)
        IN  /\ r.err = ErrNil
            /\ r.combinedDigits <= target
            /\ AcceptedAfter(r.gstate, r.combinedDigits, target)

\* whether some move string, of any length, is accepted for the board
\* gstate and the target; the empty string is not (shutthebox.go:210-213)
AcceptableMoveExists(gstate, target) ==
    \E d \in Chars :
        LET r == ProcessDigit(gstate, 0, d)
        IN  /\ r.err = ErrNil
            /\ r.combinedDigits <= target
            /\ AcceptedAfter(r.gstate, r.combinedDigits, target)

\* C28: for every reachable board and every rolled target the round is
\* declared lost exactly when no move string would be accepted by
\* processProposedUpdate for that board and target, and the player is
\* prompted exactly when one would be; a rejected move brings the prompt
\* back for the same board and the same target.
C28_SolverAgreesWithValidator ==
    [][/\ rPc = "rolled" =>
            /\ (rPc' = "lost") <=> ~AcceptableMoveExists(gameState, rTarget)
            /\ (rPc' = "prompt") <=> AcceptableMoveExists(gameState, rTarget)
       /\ (rPc = "scan" /\ rPc' = "prompt") =>
            /\ gameState' = gameState
            /\ rTarget' = rTarget]_vars

\* a round lost on a board with only slot 2 closed and the target 2, for
\* which no move is accepted
C28_Witness ==
    /\ rPc = "lost"
    /\ rTarget = 2
    /\ gameState = 509
    /\ ~AcceptableMoveExists(gameState, rTarget)

\* C29: every target computed in a game turn is the sum of two single D6
\* draws each in [1,6], so the target passed to the solver and to move
\* validation is always in [2,12].
C29_TargetIsTwoDiceSum ==
    rPc \in {"rolled", "lost", "prompt", "scan"} =>
        /\ \E roll1 \in 1..6, roll2 \in 1..6 : rTarget = roll1 + roll2
        /\ rTarget \in 2..12

\* the target 12 passed to move validation in a later turn of a round
C29_Witness ==
    /\ rPc = "scan"
    /\ rTarget = 12
    /\ gameState # 511

\* C30: in every reachable game state the board is a 9 bit bitset in
\* [0, 511]: no bit above bit 8 is set and the error value -1 is never stored.
C30_BoardIsNineBits ==
    /\ gameState \in 0..511
    /\ gameState # 0 - 1
    /\ gameState \div 512 = 0

\* a move was rejected, processProposedUpdate having returned -1, on a board
\* with closed slots; the board holds its 9 bit value
C30_Witness ==
    /\ rPc = "prompt"
    /\ rRejected = TRUE
    /\ gameState \in 1..510

(***************************************************************************)
(* Solver claims: the base case and the recursion                          *)
(***************************************************************************)

\* C31: for the targets 10, 11 and 12 on any 9 bit bitset the base case of
\* TargetSumExists (the single slot numbered target is open) is never taken,
\* so a true result for these targets is the result of the split search and
\* is made of at least two open slots.
C31_HighTargetsNeedSplit ==
    sTarget \in {10, 11, 12} =>
        /\ ~IsBitSet(sIn, GetValueSlot(sTarget))
        /\ (sPc = "done" /\ sRes) =>
              /\ [ok |-> sRes, bs |-> sBitset] =
                    TargetSumLoop(sIn, sIn, TRUE, 1, sTarget - 1)
              /\ \E S \in SUBSET OpenSlots(sIn) :
                    Cardinality(S) >= 2 /\ SumSlotValues(S) = sTarget

\* a true answer for the target 10 on the board with only slots 1 and 9 open
C31_Witness ==
    /\ sPc = "done"
    /\ sTarget = 10
    /\ sIn = 257
    /\ sRes = TRUE

\* C32: for every 9 bit bitset and target in [2,12], TargetSumExists
\* terminates with a boolean and never fails: every recursive call it makes
\* has a sub-target t with 1 <= t < the caller's target, so no slot index
\* below 0 is ever tested.
C32_SolverTerminates ==
    /\ CallProper(sIn, sTarget)
    /\ sPc = "ready" => TargetSumExists(sBitset, sTarget).ok \in BOOLEAN
    /\ sPc = "done" => sRes \in BOOLEAN

\* the call returned false for the target 12 on the shut box, after every
\* split of 12 and of its sub-targets was tried
C32_Witness ==
    /\ sPc = "done"
    /\ sIn = 0
    /\ sTarget = 12
    /\ sRes = FALSE

(***************************************************************************)
(* The order of the checks of a move                                       *)
(***************************************************************************)

\* the positions of a move that fail one of the two per-character checks
OffendingPositions(board, update) ==
    InvalidPositions(update) \cup ClosedOrRepeated(board, update)

\* the error the character at position k of a move is rejected with
ErrorOfPosition(update, k) ==
    IF k \in InvalidPositions(update)
    THEN <<"ErrInvDigit">>
    ELSE <<"slot already closed", DigitValue[update[k]]>>

\* C33: processProposedUpdate scans the move left to right and reports the
\* error of the first offending character (invalid digit, or closed or
\* repeated slot): it returns at that character, without reading further and
\* without changing the board.  It returns before the end of the move only
\* at an offending character, and ErrNotEqTarget is reported only when every
\* character of the move passed both per-character checks.
C33_FirstOffendingCharacterReported ==
    uPc = "called" =>
        LET off == OffendingPositions(uPrev, uMove)
        IN  /\ off # {} =>
                  LET first == CHOOSE k \in off : \A j \in off : k <= j
                  IN  /\ first = Len(uMove)
                      /\ ~uWhole
                      /\ uOut.err = ErrorOfPosition(uMove, first)
                      /\ gameState = uPrev
            /\ ~uWhole => off # {}
            /\ uOut.err[1] = "ErrNotEqTarget" =>
                  /\ uWhole
                  /\ uMove # <<>>
                  /\ off = {}

\* the move "4a..." was rejected at its second character with ErrInvDigit on
\* a board whose slot 2 is closed, after the 4 had passed both checks
C33_Witness ==
    /\ uPc = "called"
    /\ uMove = <<"4", "a">>
    /\ uPrev = 509
    /\ ~uWhole
    /\ uOut.err = <<"ErrInvDigit">>
    /\ gameState = 509

(***************************************************************************)
(* Rounds: what a round does to the board                                  *)
(***************************************************************************)

\* whether bit i of a board is set, by arithmetic
BitOf(board, i) == (board \div (2 ^ i)) % 2

\* C34: within a round the set of open slots only shrinks: a slot that is
\* closed stays closed through every roll, check, rejected move and accepted
\* move, and a closed slot reopens only in the reset at a round boundary (a
\* lost round, or a win the player continues), which opens the whole box.
C34_OpenSlotsOnlyShrink ==
    [][ \A i \in 0..8 :
            (BitOf(gameState, i) = 0 /\ BitOf(gameState', i) # 0) =>
                /\ rPc = "lost" \/ (rPc = "won" /\ rPc' = "loop")
                /\ rNewRound'
                /\ gameState' = 511 ]_vars

\* in a round with slot 2 closed the dice gave 3 and a move was rejected:
\* slot 2 is still closed at the prompt
C34_Witness ==
    /\ rPc = "prompt"
    /\ rRejected
    /\ rTarget = 3
    /\ gameState = 509

RECURSIVE ClosedSum(_, _)
\* the sum of the values i + 1 of the slots i..8 that are closed on a board
ClosedSum(board, i) ==
    IF i > 8 THEN 0
    ELSE (IF BitOf(board, i) = 0 THEN i + 1 ELSE 0) + ClosedSum(board, i + 1)

\* C35: at every point of a round the sum of the values of the closed slots
\* equals the sum of the targets of the moves accepted so far in that round;
\* in particular a win is reached only when the accepted targets of the
\* round sum to 45.
C35_ClosedSumIsAcceptedTargets ==
    /\ rPc # "off" => ClosedSum(gameState, 0) = rAccepted
    /\ rPc = "won" => rAccepted = 45

\* two moves were accepted in the round, for the targets 2 and 12
C35_Witness ==
    /\ rPc = "loop"
    /\ rAccepted = 14
    /\ gameState = 511 - 2 - 4 - 256

\* the number of open slots of a board
OpenCount(board) == Cardinality({ i \in 0..8 : BitOf(board, i) = 1 })

\* C36: every accepted move closes at least one open slot and opens none, so
\* the number of open slots, which is at most 9, strictly decreases with
\* every accepted move of a round: a round contains at most 9 accepted moves
\* and cannot continue forever through accepted moves.
C36_AcceptedMoveClosesASlot ==
    /\ [](OpenCount(gameState) \in 0..9)
    /\ [][ (rPc = "scan" /\ rPc' = "loop") =>
               /\ OpenCount(gameState') < OpenCount(gameState)
               /\ \A i \in 0..8 : BitOf(gameState', i) <= BitOf(gameState, i)
               /\ rAccepted' > rAccepted
               /\ rNewRound' = FALSE ]_vars

\* the second accepted move of a round closed the single slot 9
C36_Witness ==
    /\ rPc = "loop"
    /\ rAccepted = 11
    /\ gameState = 511 - 2 - 256
    /\ OpenCount(gameState) = 7

(***************************************************************************)
(* The end of the game                                                     *)
(***************************************************************************)

\* C39 as stated: the game reaches its end state only from the win check,
\* when the player declines to continue; from every other state play
\* continues.
C39_EndOnlyFromWinCheck ==
    [][ (rPc' = "end" /\ rPc # "end") => rPc = "won" ]_vars

\* C39: the game reaches its end state only from the win check, when the
\* player declines to continue ("n" or the empty line), or from the move
\* prompt, when the player enters the empty line; from every other state
\* (awaiting the roll, the loss check, a lost round, the scan of a move,
\* whether it is rejected or accepted) play continues, and nothing happens
\* after the end.
C39_EndFromWinCheckOrQuit ==
    [][ /\ (rPc' = "end" /\ rPc = "won") => rAnswer' \in {"n", ""}
        /\ (rPc' = "end" /\ rPc # "won") =>
              /\ rPc = "prompt"
              /\ gameState' = gameState
              /\ player_i' = player_i
        /\ rPc \in {"loop", "rolled", "lost", "scan"} => rPc' # "end"
        /\ rPc # "end" ]_vars

\* the game ended at the win check: the box is shut and the player answered n
C39_Witness ==
    /\ rPc = "end"
    /\ rAnswer = "n"
    /\ gameState = 0

(***************************************************************************)
(* The pipeline runs to its end                                            *)
(***************************************************************************)

\* computeProbability has returned, the producer is finished and the channel
\* is closed
PipelineReturned == cPc = "returned" /\ pPc = "done" /\ chanClosed

\* C37: for every eventCount >= 0 and a random source that always returns,
\* the pipeline cannot deadlock: as long as computeProbability has not
\* returned, the producer or the consumer can take a step, and under fair
\* scheduling of the two computeProbability eventually returns, with the
\* producer finished and the channel closed, and stays so.
C37_PipelineReturns ==
    /\ [](cPc # "returned" => ENABLED <<PipeNext>>_vars)
    /\ <>[]PipelineReturned

\* computeProbability returned for eventCount 0: the producer closed the
\* channel without a send
C37_Witness ==
    /\ PipelineReturned
    /\ numEvents = 0
    /\ drawn = <<>>
    /\ closeCount = 1

(***************************************************************************)
(* The player list of a game the menu starts                               *)
(***************************************************************************)

\* C38: every game the Shut the Box menu option starts has a player list of
\* length >= 1: NewShutBox and Run are called only with at least one player.
C38_GameHasAPlayer ==
    rPc \notin {"menu", "menu_back", "panic"} => players_n >= 1

====
